---- MODULE Spec2Model ----
(***************************************************************************)
(* Model of the service instances launcher of aos_communicationmanager     *)
(* (src/launcher/launcher.go): node registration, placement of desired     *)
(* instances on nodes with device shared-count accounting, rebalancing on  *)
(* a system quota alert, and the merge of the nodes' run statuses that is  *)
(* emitted either when every node has replied or by the connection timer.  *)
(*                                                                         *)
(* Threads: the caller of RunInstances / RestartInstances ("api"), the     *)
(* processChannels goroutine ("chan") and the goroutine started by the     *)
(* connection timer, which runs sendCurrentStatus without the lock.        *)
(* Every locked handler is two steps: taking the lock, then its body up to *)
(* the deferred Unlock.  The timer's sendCurrentStatus is two steps: the   *)
(* loop over the nodes, then the rest up to the channel send.              *)
(***************************************************************************)
EXTENDS Integers, Sequences, FiniteSets, TLC

(***************************************************************************)
(* Bounds of the model.                                                    *)
(***************************************************************************)
MaxPasses == 2

MaxOutstanding == 2

MaxPendingCallbacks == 1

\* the desired statuses an update manager processes
MaxUpdates == 2

\* the restarts of an update manager
MaxRestarts == 2

(***************************************************************************)
(* Program constants.                                                      *)
(***************************************************************************)
UIDMin == 5000

defaultRunner == "crun"

defaultRunnerFeatures == {"crun", "runc"}

InstanceStateActive == "active"

InstanceStateFailed == "failed"

WaitTimeoutMessage == "wait run status timeout"

(***************************************************************************)
(* Generic helpers on sequences.                                           *)
(***************************************************************************)
Range(s) == {s[i] : i \in 1..Len(s)}

RemoveAt(s, i) == SubSeq(s, 1, i - 1) \o SubSeq(s, i + 1, Len(s))

(***************************************************************************)
(* Configuration: config.SMController.NodeIDs, the node manager's node     *)
(* information, the resource manager's unit configurations and the image   *)
(* provider's services, as set up by TestBalancingByUnitConfiguration.     *)
(***************************************************************************)
\* the node identifiers the node manager knows
AllNodeIDs == {"localSM1", "localSM2", "remoteSM1"}

\* config.SMController.NodeIDs of TestBalancingByUnitConfiguration
NodeIDsS5 == AllNodeIDs

\* a unit of one local and one remote node
NodeIDsPair == {"localSM1", "remoteSM1"}

\* string order of the node identifiers
NodeIDRank(id) ==
    CASE id = "localSM1" -> 1
      [] id = "localSM2" -> 2
      [] id = "remoteSM1" -> 3

\* string order of the service identifiers
ServiceIDRank(id) ==
    CASE id = "serv1" -> 1
      [] id = "serv2" -> 2
      [] id = "serv3" -> 3
      [] id = "serv4" -> 4
      [] id = "servCached" -> 5
      [] OTHER -> 6

GetNodeConfiguration(nodeID) ==
    IF nodeID = "remoteSM1"
    THEN [NodeID |-> nodeID, NodeType |-> "remoteSMType", RemoteNode |-> TRUE,
          RunnerFeature |-> {"runc", "crun"}]
    ELSE [NodeID |-> nodeID, NodeType |-> "localSMType", RemoteNode |-> FALSE,
          RunnerFeature |-> {"runc", "crun"}]

Dev(name, sharedCount) == [Name |-> name, SharedCount |-> sharedCount]

\* unit configuration of TestBalancingByUnitConfiguration
UnitConfigS5 ==
    [localSMType |->
        [Priority |-> 100, Labels |-> {}, Resources |-> <<>>,
         Devices |-> <<Dev("devSpeaker", 0), Dev("devMic", 2), Dev("devTest", 1)>>],
     remoteSMType |->
        [Priority |-> 50, Labels |-> {}, Resources |-> <<>>,
         Devices |-> <<Dev("devTest", 1), Dev("devSpeaker", 0), Dev("devUniq", 0),
                       Dev("devRemote", 5)>>]]

\* devTest has no shared count on the local nodes and devMic none on the
\* remote node
UnitConfigZero ==
    [localSMType |->
        [Priority |-> 100, Labels |-> {}, Resources |-> <<>>,
         Devices |-> <<Dev("devSpeaker", 0), Dev("devMic", 2), Dev("devTest", 0)>>],
     remoteSMType |->
        [Priority |-> 50, Labels |-> {}, Resources |-> <<>>,
         Devices |-> <<Dev("devTest", 2), Dev("devSpeaker", 0), Dev("devUniq", 0),
                       Dev("devMic", 0)>>]]

UnitConfigs == {UnitConfigS5, UnitConfigZero}

Service(id, gid, devices) ==
    [exists |-> TRUE, ID |-> id, GID |-> gid, URL |-> "local", RemoteURL |-> "remote",
     Cached |-> FALSE, Layers |-> <<>>, Runner |-> "runc", Resources |-> <<>>,
     Devices |-> devices, ExposedPorts |-> {}]

\* imageProvider.GetServiceInfo; exists = FALSE stands for the error
GetServiceInfo(serviceID) ==
    CASE serviceID = "serv1" -> Service("serv1", 5000, <<"devSpeaker", "devUniq", "devTest">>)
      [] serviceID = "serv2" -> Service("serv2", 5001, <<"devTest">>)
      [] serviceID = "serv3" -> Service("serv3", 5002, <<"devTest", "devTest">>)
      [] serviceID = "serv4" -> Service("serv4", 5003, <<"devMic">>)
      [] serviceID = "servCached" ->
             [Service("servCached", 5004, <<>>) EXCEPT !.Cached = TRUE]
      [] OTHER -> [Service(serviceID, 0, <<>>) EXCEPT !.exists = FALSE]

\* imageProvider.GetLayerInfo: no layer is installed
LayerExists(digest) == FALSE

Desired(serviceID, priority, numInstances) ==
    [ServiceID |-> serviceID, SubjectID |-> "subj1", Priority |-> priority,
     NumInstances |-> numInstances, Labels |-> {}]

DesiredS5 == <<Desired("serv1", 100, 1), Desired("serv2", 90, 3)>>

\* the desired instances lists RunInstances is called with
DesiredChoices ==
    {<<>>, DesiredS5, <<Desired("serv4", 50, 1), Desired("serv3", 100, 1)>>,
     <<Desired("serv2", 90, 1)>>}

\* the services the caller of RunInstances has just installed
NewlyInstalled == {"serv2"}

\* the newServices argument of RunInstances for the desired instances
NewServices(instances) ==
    SelectSeq([i \in 1..Len(instances) |-> instances[i].ServiceID],
              LAMBDA id : id \in NewlyInstalled)

Ident(serviceID, subjectID, index) ==
    [ServiceID |-> serviceID, SubjectID |-> subjectID, Instance |-> index]

\* the sets of instances for which storageStateProvider.Setup fails in a pass
SetupFailureChoices == {{}, {Ident("serv2", "subj1", 0)}}

\* what a service manager reports when it connects: it runs no instance
RegistrationReports(nodeID) == {<<>>}

(***************************************************************************)
(* Node status and device accounting.                                      *)
(***************************************************************************)
EmptyRunRequest == [services |-> <<>>, layers |-> <<>>, instances |-> <<>>]

\* the devices of a unit configuration as nodeDevice values, nothing allocated
initNodeDevices(devices) ==
    [i \in 1..Len(devices) |->
        [name |-> devices[i].Name, sharedCount |-> devices[i].SharedCount,
         allocatedCount |-> 0]]

initNodeUnitConfiguration(node, nodeUnitConfig) ==
    [node EXCEPT !.priority = nodeUnitConfig.Priority,
                 !.availableLabels = nodeUnitConfig.Labels,
                 !.availableResources = Range(nodeUnitConfig.Resources),
                 !.availableDevices = initNodeDevices(nodeUnitConfig.Devices)]

initNodeStatus(nodeID, nodeUnitConfig) ==
    LET config == GetNodeConfiguration(nodeID)
        status == [NodeID |-> config.NodeID, NodeType |-> config.NodeType,
                   RemoteNode |-> config.RemoteNode,
                   RunnerFeature |-> config.RunnerFeature,
                   priority |-> 0, availableLabels |-> {}, availableResources |-> {},
                   availableDevices |-> <<>>, receivedRunInstances |-> <<>>,
                   currentRunRequest |-> EmptyRunRequest, waitStatus |-> FALSE]
    IN initNodeUnitConfiguration(status, nodeUnitConfig)

resetDeviceAllocation(nodeList) ==
    [n \in 1..Len(nodeList) |->
        [nodeList[n] EXCEPT !.availableDevices =
            [i \in 1..Len(@) |-> [@[i] EXCEPT !.allocatedCount = 0]]]]

nodeHasDesiredDevices(node, desiredDevices) ==
    \A d \in 1..Len(desiredDevices) :
        \E i \in 1..Len(node.availableDevices) :
            /\ node.availableDevices[i].name = desiredDevices[d]
            /\ \/ node.availableDevices[i].sharedCount = 0
               \/ node.availableDevices[i].allocatedCount
                      # node.availableDevices[i].sharedCount

\* index of the first device of that name with a shared count, 0 if none
SharedDeviceIndex(devices, name) ==
    LET found == {i \in 1..Len(devices) :
                     devices[i].name = name /\ devices[i].sharedCount # 0}
    IN IF found = {} THEN 0 ELSE CHOOSE i \in found : \A j \in found : i <= j

\* allocateDevice without the test for a device that is fully allocated
allocateDeviceUnchecked(devices, name) ==
    LET i == SharedDeviceIndex(devices, name)
    IN IF i = 0 THEN [devices |-> devices, err |-> "can't allocate device"]
       ELSE [devices |-> [devices EXCEPT ![i].allocatedCount = @ + 1], err |-> ""]

\* one iteration of serviceDeviceLoop of allocateDevices
allocateDevice(devices, name) ==
    LET i == SharedDeviceIndex(devices, name)
    IN IF i = 0 THEN [devices |-> devices, err |-> "can't allocate device"]
       ELSE IF devices[i].allocatedCount = devices[i].sharedCount
            THEN [devices |-> devices, err |-> "can't allocate device"]
            ELSE [devices |-> [devices EXCEPT ![i].allocatedCount = @ + 1],
                  err |-> ""]

RECURSIVE allocateDevicesFrom(_, _, _)
allocateDevicesFrom(devices, serviceDevices, k) ==
    IF k > Len(serviceDevices) THEN [devices |-> devices, err |-> ""]
    ELSE LET r == allocateDevice(devices, serviceDevices[k])
         IN IF r.err # "" THEN r
            ELSE allocateDevicesFrom(r.devices, serviceDevices, k + 1)

\* the devices allocated before a failing one stay allocated
allocateDevices(node, serviceDevices) ==
    LET r == allocateDevicesFrom(node.availableDevices, serviceDevices, 1)
    IN [node |-> [node EXCEPT !.availableDevices = r.devices], err |-> r.err]

\* one iteration of serviceDeviceLoop of releaseDevices
releaseDevice(devices, name) ==
    LET i == SharedDeviceIndex(devices, name)
    IN IF i = 0 THEN [devices |-> devices, err |-> "can't release device"]
       ELSE IF devices[i].allocatedCount = 0
            THEN [devices |-> devices, err |-> "can't release device"]
            ELSE [devices |-> [devices EXCEPT ![i].allocatedCount = @ - 1],
                  err |-> ""]

RECURSIVE releaseDevicesFrom(_, _, _)
releaseDevicesFrom(devices, serviceDevices, k) ==
    IF k > Len(serviceDevices) THEN [devices |-> devices, err |-> ""]
    ELSE LET r == releaseDevice(devices, serviceDevices[k])
         IN IF r.err # "" THEN r
            ELSE releaseDevicesFrom(r.devices, serviceDevices, k + 1)

releaseDevices(node, serviceDevices) ==
    LET r == releaseDevicesFrom(node.availableDevices, serviceDevices, 1)
    IN [node |-> [node EXCEPT !.availableDevices = r.devices], err |-> r.err]

(***************************************************************************)
(* Node filters.  A list of nodes is a sequence of indices into the        *)
(* launcher's node list (the code's []*nodeStatus).                        *)
(***************************************************************************)
getNodeByRunner(nodeList, candidates, serviceRunner) ==
    LET runner == IF serviceRunner = "" THEN defaultRunner ELSE serviceRunner
    IN SelectSeq(candidates, LAMBDA n :
           \/ nodeList[n].RunnerFeature = {} /\ runner \in defaultRunnerFeatures
           \/ runner \in nodeList[n].RunnerFeature)

getNodesByLabels(nodeList, candidates, desiredLabels) ==
    IF desiredLabels = {} THEN candidates
    ELSE SelectSeq(candidates, LAMBDA n :
             /\ nodeList[n].availableLabels # {}
             /\ desiredLabels \subseteq nodeList[n].availableLabels)

getNodesByResources(nodeList, candidates, desiredResources) ==
    IF desiredResources = <<>> THEN candidates
    ELSE SelectSeq(candidates, LAMBDA n :
             /\ nodeList[n].availableResources # {}
             /\ Range(desiredResources) \subseteq nodeList[n].availableResources)

getNodesByStaticResources(nodeList, candidates, serviceInfo, labels) ==
    LET byRunner == getNodeByRunner(nodeList, candidates, serviceInfo.Runner)
        byLabels == getNodesByLabels(nodeList, byRunner, labels)
        byResources == getNodesByResources(nodeList, byLabels, serviceInfo.Resources)
    IN IF byRunner = <<>> THEN [nodes |-> <<>>, err |-> "no node with runner"]
       ELSE IF byLabels = <<>> THEN [nodes |-> <<>>, err |-> "no node with labels"]
       ELSE IF byResources = <<>> THEN [nodes |-> <<>>, err |-> "no node with resources"]
       ELSE [nodes |-> byResources, err |-> ""]

getNodesByDevices(nodeList, availableNodes, desiredDevices) ==
    IF desiredDevices = <<>> THEN [nodes |-> availableNodes, err |-> ""]
    ELSE LET selected == SelectSeq(availableNodes, LAMBDA n :
                             nodeHasDesiredDevices(nodeList[n], desiredDevices))
         IN IF selected = <<>>
            THEN [nodes |-> <<>>, err |-> "no available device found"]
            ELSE [nodes |-> selected, err |-> ""]

\* the first node of the list with the highest priority
getMostPriorityNode(nodeList, candidates) ==
    IF Len(candidates) = 1 THEN candidates[1]
    ELSE candidates[CHOOSE k \in 1..Len(candidates) :
            /\ \A j \in 1..Len(candidates) :
                   nodeList[candidates[j]].priority <= nodeList[candidates[k]].priority
            /\ \A j \in 1..(k - 1) :
                   nodeList[candidates[j]].priority < nodeList[candidates[k]].priority]

AllNodes(nodeList) == [n \in 1..Len(nodeList) |-> n]

\* index of the node in the list, 0 for the nil result
getNode(nodeList, nodeID) ==
    IF \E n \in 1..Len(nodeList) : nodeList[n].NodeID = nodeID
    THEN CHOOSE n \in 1..Len(nodeList) : nodeList[n].NodeID = nodeID
    ELSE 0

(***************************************************************************)
(* Sorting.  The lists are shorter than 12 elements, where sort.Slice and  *)
(* slices.SortFunc are insertion sorts.                                    *)
(***************************************************************************)
\* a less function that puts the lower priority first
DesiredLessAscending(a, b) ==
    IF a.Priority = b.Priority
    THEN ServiceIDRank(a.ServiceID) < ServiceIDRank(b.ServiceID)
    ELSE a.Priority < b.Priority

\* the less function of performNodeBalancing
DesiredLess(a, b) ==
    IF a.Priority = b.Priority
    THEN ServiceIDRank(a.ServiceID) < ServiceIDRank(b.ServiceID)
    ELSE a.Priority > b.Priority

RECURSIVE InsertDesired(_, _)
InsertDesired(s, x) ==
    IF s = <<>> THEN <<x>>
    ELSE IF DesiredLess(x, s[Len(s)])
         THEN InsertDesired(SubSeq(s, 1, Len(s) - 1), x) \o <<s[Len(s)]>>
         ELSE s \o <<x>>

RECURSIVE SortDesired(_)
SortDesired(s) ==
    IF s = <<>> THEN <<>>
    ELSE InsertDesired(SortDesired(SubSeq(s, 1, Len(s) - 1)), s[Len(s)])

\* the less function of processRunInstanceStatus
NodeLessByPriorityDesc(a, b) ==
    IF a.priority = b.priority THEN NodeIDRank(a.NodeID) < NodeIDRank(b.NodeID)
    ELSE a.priority > b.priority

\* the less function of getNodesForRebalancingByNodePriority
NodeLessByPriorityAsc(a, b) ==
    IF a.priority = b.priority THEN NodeIDRank(a.NodeID) < NodeIDRank(b.NodeID)
    ELSE a.priority < b.priority

RECURSIVE InsertNode(_, _, _)
InsertNode(s, x, descending) ==
    IF s = <<>> THEN <<x>>
    ELSE IF (IF descending THEN NodeLessByPriorityDesc(x, s[Len(s)])
                           ELSE NodeLessByPriorityAsc(x, s[Len(s)]))
         THEN InsertNode(SubSeq(s, 1, Len(s) - 1), x, descending) \o <<s[Len(s)]>>
         ELSE s \o <<x>>

RECURSIVE SortNodes(_, _)
SortNodes(s, descending) ==
    IF s = <<>> THEN <<>>
    ELSE InsertNode(SortNodes(SubSeq(s, 1, Len(s) - 1), descending), s[Len(s)],
                    descending)

(***************************************************************************)
(* Instance storage (Storage interface) and the UID pool.                  *)
(* storage maps every stored InstanceIdent to its UID; the pool is the set *)
(* of the UIDs in use.                                                     *)
(***************************************************************************)
\* uidPool.GetFreeID: the lowest identifier that is not in use
GetFreeID(pool) ==
    CHOOSE id \in UIDMin..(UIDMin + Cardinality(pool)) :
        /\ id \notin pool
        /\ \A other \in UIDMin..(id - 1) : other \in pool

RemoveID(pool, uid) == pool \ {uid}

DesiredIdents(instances) ==
    UNION {{Ident(instances[i].ServiceID, instances[i].SubjectID, index) :
               index \in 0..(instances[i].NumInstances - 1)} : i \in 1..Len(instances)}

\* removes the stored instances that are not desired any more and frees
\* their UIDs
removeInstances(store, pool, instances) ==
    LET removed == DOMAIN store \ DesiredIdents(instances)
    IN [storage |-> [ident \in DOMAIN store \ removed |-> store[ident]],
        uidPool |-> pool \ {store[ident] : ident \in removed}]

createInstanceStatusFromInfo(serviceID, subjectID, instanceIndex, runState, errorMsg) ==
    [InstanceIdent |-> Ident(serviceID, subjectID, instanceIndex), NodeID |-> "",
     RunState |-> runState, ErrorInfo |-> errorMsg]

\* ps is the launcher state a placement pass works on: nodes, storage,
\* uidPool and the error statuses collected so far
prepareInstanceStartInfo(ps, instance, index, setupFailures) ==
    LET ident == Ident(instance.ServiceID, instance.SubjectID, index)
        stored == ident \in DOMAIN ps.storage
        uid == IF stored THEN ps.storage[ident] ELSE GetFreeID(ps.uidPool)
        pool == IF stored THEN ps.uidPool ELSE ps.uidPool \cup {uid}
        store == IF stored THEN ps.storage ELSE (ident :> uid) @@ ps.storage
        failed == ident \in setupFailures
    IN [ps |-> [ps EXCEPT !.storage = store,
                          !.uidPool = IF failed THEN RemoveID(pool, uid) ELSE pool],
        instanceInfo |-> [InstanceIdent |-> ident, UID |-> uid,
                          Priority |-> instance.Priority, IP |-> 0],
        err |-> IF failed THEN "setup failed" ELSE ""]

addRunRequest(node, service, instance) ==
    LET serviceInfo == [ID |-> service.ID, GID |-> service.GID,
                        URL |-> IF node.RemoteNode THEN service.RemoteURL
                                ELSE service.URL]
        isNewService == serviceInfo \notin Range(node.currentRunRequest.services)
    IN [node EXCEPT
           !.currentRunRequest.instances = Append(@, instance),
           !.currentRunRequest.services =
               IF isNewService THEN Append(@, serviceInfo) ELSE @]

AppendError(ps, instance, index, errorMsg) ==
    [ps EXCEPT !.errStatus = Append(@,
        createInstanceStatusFromInfo(instance.ServiceID, instance.SubjectID, index,
                                     InstanceStateFailed, errorMsg))]

RECURSIVE AppendErrors(_, _, _, _)
AppendErrors(ps, instance, index, errorMsg) ==
    IF index >= instance.NumInstances THEN ps
    ELSE AppendErrors(AppendError(ps, instance, index, errorMsg), instance,
                      index + 1, errorMsg)

\* the body of the instance loop of performNodeBalancing
BalanceInstance(ps, serviceInfo, instance, nodesForService, index, setupFailures) ==
    LET nodeForInstance == getNodesByDevices(ps.nodes, nodesForService,
                                             serviceInfo.Devices)
        prepared == prepareInstanceStartInfo(ps, instance, index, setupFailures)
        afterPrepare == IF prepared.err # ""
                        THEN AppendError(prepared.ps, instance, index, prepared.err)
                        ELSE prepared.ps
        node == getMostPriorityNode(afterPrepare.nodes, nodeForInstance.nodes)
        allocated == allocateDevices(afterPrepare.nodes[node], serviceInfo.Devices)
        afterAllocate == [afterPrepare EXCEPT !.nodes[node] = allocated.node]
    IN IF nodeForInstance.err # ""
       THEN AppendError(ps, instance, index, nodeForInstance.err)
       ELSE IF allocated.err # ""
            THEN AppendError(afterAllocate, instance, index, allocated.err)
            ELSE [afterAllocate EXCEPT !.nodes[node] =
                     addRunRequest(@, serviceInfo, prepared.instanceInfo)]

RECURSIVE BalanceInstances(_, _, _, _, _, _)
BalanceInstances(ps, serviceInfo, instance, nodesForService, index, setupFailures) ==
    IF index >= instance.NumInstances THEN ps
    ELSE BalanceInstances(
             BalanceInstance(ps, serviceInfo, instance, nodesForService, index,
                             setupFailures),
             serviceInfo, instance, nodesForService, index + 1, setupFailures)

\* the body of the desired instances loop of performNodeBalancing
BalanceService(ps, instance, setupFailures) ==
    LET serviceInfo == GetServiceInfo(instance.ServiceID)
        layersFound == \A l \in 1..Len(serviceInfo.Layers) :
                           LayerExists(serviceInfo.Layers[l])
        static == getNodesByStaticResources(ps.nodes, AllNodes(ps.nodes), serviceInfo,
                                            instance.Labels)
    IN IF ~serviceInfo.exists
       THEN AppendError(ps, instance, 0, "service does't exist")
       ELSE IF serviceInfo.Cached
            THEN AppendError(ps, instance, 0, "service deleted")
       ELSE IF ~layersFound
            THEN AppendErrors(ps, instance, 0, "layer does't exist")
       ELSE IF static.err # ""
            THEN AppendErrors(ps, instance, 0, static.err)
       ELSE BalanceInstances(ps, serviceInfo, instance, static.nodes, 0, setupFailures)

RECURSIVE BalanceServices(_, _, _, _)
BalanceServices(ps, instances, k, setupFailures) ==
    IF k > Len(instances) THEN ps
    ELSE BalanceServices(BalanceService(ps, instances[k], setupFailures), instances,
                         k + 1, setupFailures)

(***************************************************************************)
(* Network parameters (NetworkManager interface).  net maps every instance *)
(* that holds network parameters to its IP address, a number from 1.       *)
(***************************************************************************)
\* the lowest address no instance holds
GetFreeIP(net) ==
    CHOOSE ip \in 1..(Cardinality(DOMAIN net) + 1) :
        /\ \A ident \in DOMAIN net : net[ident] # ip
        /\ \A other \in 1..(ip - 1) : \E ident \in DOMAIN net : net[ident] = other

\* a network manager that hands out a new address on every call
PrepareInstanceNetworkParametersAnew(net, ident) ==
    (ident :> GetFreeIP(net)) @@ net

\* networkManager.PrepareInstanceNetworkParameters: an instance keeps the
\* parameters it holds, another one is given the lowest free address
PrepareInstanceNetworkParameters(net, ident) ==
    IF ident \in DOMAIN net THEN net ELSE (ident :> GetFreeIP(net)) @@ net

\* the instances that are not desired any more lose their parameters
removeInstanceNetworkParameters(net, instances) ==
    [ident \in DOMAIN net \cap DesiredIdents(instances) |-> net[ident]]

\* the loop of prepareNetworkForInstances over the instances of node n, from
\* instance i on
RECURSIVE PrepareNodeNetwork(_, _, _, _, _)
PrepareNodeNetwork(nodeList, net, n, i, onlyExposedPorts) ==
    IF i > Len(nodeList[n].currentRunRequest.instances)
    THEN [nodes |-> nodeList, network |-> net]
    ELSE
      LET instance == nodeList[n].currentRunRequest.instances[i]
          serviceInfo == GetServiceInfo(instance.InstanceIdent.ServiceID)
          prepared == PrepareInstanceNetworkParameters(net, instance.InstanceIdent)
      IN IF ~serviceInfo.exists \/ (onlyExposedPorts /\ serviceInfo.ExposedPorts = {})
         THEN PrepareNodeNetwork(nodeList, net, n, i + 1, onlyExposedPorts)
         ELSE PrepareNodeNetwork(
                  [nodeList EXCEPT ![n].currentRunRequest.instances[i].IP =
                                       prepared[instance.InstanceIdent]],
                  prepared, n, i + 1, onlyExposedPorts)

\* the loop of prepareNetworkForInstances over the nodes, from node n on
RECURSIVE prepareNetworkForInstances(_, _, _, _)
prepareNetworkForInstances(nodeList, net, n, onlyExposedPorts) ==
    IF n > Len(nodeList) THEN [nodes |-> nodeList, network |-> net]
    ELSE LET done == PrepareNodeNetwork(nodeList, net, n, 1, onlyExposedPorts)
         IN prepareNetworkForInstances(done.nodes, done.network, n + 1,
                                       onlyExposedPorts)

\* instances is the sorted list; the result carries the new nodes, storage,
\* uidPool, network and the returned errStatus
performNodeBalancing(nodeList, store, pool, net, instances, setupFailures) ==
    LET cleared == [n \in 1..Len(nodeList) |->
                       [nodeList[n] EXCEPT !.currentRunRequest = EmptyRunRequest]]
        removed == removeInstances(store, pool, instances)
        \* the second pass of prepareNetworkForInstances, after the pass
        \* over the instances with exposed ports
        Rest(exposed) == prepareNetworkForInstances(exposed.nodes, exposed.network, 1, FALSE)
        Balanced(balanced, rest) ==
            [nodes |-> rest.nodes, storage |-> balanced.storage,
             uidPool |-> balanced.uidPool, errStatus |-> balanced.errStatus,
             network |-> rest.network]
        WithNetwork(balanced) ==
            Balanced(balanced,
                     Rest(prepareNetworkForInstances(
                              balanced.nodes,
                              removeInstanceNetworkParameters(net, instances), 1, TRUE)))
    IN WithNetwork(BalanceServices([nodes |-> cleared, storage |-> removed.storage,
                                    uidPool |-> removed.uidPool, errStatus |-> <<>>],
                                   instances, 1, setupFailures))

(***************************************************************************)
(* Rebalancing helpers.                                                    *)
(***************************************************************************)
\* the nodes a rebalancing may use: not the node with the issue and not of
\* higher priority
RebalancingNodes(nodeList, nodeWithIssue) ==
    SelectSeq(AllNodes(nodeList), LAMBDA n :
        /\ ~(nodeList[nodeWithIssue].priority < nodeList[n].priority)
        /\ nodeList[n].NodeID # nodeList[nodeWithIssue].NodeID)

RECURSIVE InsertByFree(_, _, _)
InsertByFree(s, x, free) ==
    IF s = <<>> THEN <<x>>
    ELSE IF free[x] > free[s[Len(s)]]
         THEN InsertByFree(SubSeq(s, 1, Len(s) - 1), x, free) \o <<s[Len(s)]>>
         ELSE s \o <<x>>

RECURSIVE SortByFree(_, _)
SortByFree(s, free) ==
    IF s = <<>> THEN <<>>
    ELSE InsertByFree(SortByFree(SubSeq(s, 1, Len(s) - 1), free), s[Len(s)], free)

\* free maps a node identifier to the free CPU (alert "cpu") or free RAM
\* (any other alert) computed from the node's monitoring data
getNodeByMonitoringData(nodeList, candidates, free) ==
    IF Len(candidates) = 1 THEN candidates
    ELSE SortByFree(candidates, [n \in 1..Len(nodeList) |-> free[nodeList[n].NodeID]])

getLabelsForInstance(desiredInstances, ident) ==
    LET found == {i \in 1..Len(desiredInstances) :
                     /\ desiredInstances[i].ServiceID = ident.ServiceID
                     /\ desiredInstances[i].SubjectID = ident.SubjectID}
    IN IF found = {} THEN {}
       ELSE desiredInstances[CHOOSE i \in found : \A j \in found : i <= j].Labels

\* the loop of performRebalancing over the instances of the node with the
\* issue, from the last one (index i) down; moved tells whether the run
\* requests have to be sent
RECURSIVE RebalanceFrom(_, _, _, _, _)
RebalanceFrom(nodeList, desiredInstances, nodeWithIssue, i, free) ==
    IF i < 1 THEN [nodes |-> nodeList, moved |-> FALSE, target |-> 0]
    ELSE
      LET instance == nodeList[nodeWithIssue].currentRunRequest.instances[i]
          serviceInfo == GetServiceInfo(instance.InstanceIdent.ServiceID)
          labels == getLabelsForInstance(desiredInstances, instance.InstanceIdent)
          static == getNodesByStaticResources(nodeList, AllNodes(nodeList),
                                              serviceInfo, labels)
          byDevices == getNodesByDevices(nodeList, static.nodes, serviceInfo.Devices)
          nodesToRebalance == getNodeByMonitoringData(nodeList, byDevices.nodes, free)
          layersFound == \A l \in 1..Len(serviceInfo.Layers) :
                             LayerExists(serviceInfo.Layers[l])
          target == nodesToRebalance[1]
          added == [nodeList EXCEPT ![target] = addRunRequest(@, serviceInfo, instance)]
          released == releaseDevices(added[nodeWithIssue], serviceInfo.Devices)
          afterRelease == [added EXCEPT ![nodeWithIssue] = released.node]
      IN IF \/ ~serviceInfo.exists
            \/ static.nodes = <<>>
            \/ byDevices.nodes = <<>>
            \/ ~layersFound
         THEN RebalanceFrom(nodeList, desiredInstances, nodeWithIssue, i - 1, free)
         ELSE IF released.err # ""
              THEN RebalanceFrom(afterRelease, desiredInstances, nodeWithIssue, i - 1,
                                 free)
              ELSE [nodes |-> [afterRelease EXCEPT
                                  ![nodeWithIssue].currentRunRequest.instances =
                                      RemoveAt(@, i)],
                    moved |-> TRUE, target |-> target]

(***************************************************************************)
(* sendCurrentStatus.                                                      *)
(***************************************************************************)
TimeoutStatus(node, instance) ==
    [InstanceIdent |-> instance.InstanceIdent, NodeID |-> node.NodeID,
     RunState |-> InstanceStateFailed, ErrorInfo |-> WaitTimeoutMessage]

\* the received statuses of a node, whether it is waited for or not
NodeStatusEntriesReceived(node) == node.receivedRunInstances

\* what the loop over the nodes appends for one node
NodeStatusEntries(node) ==
    IF node.waitStatus
    THEN [i \in 1..Len(node.currentRunRequest.instances) |->
             TimeoutStatus(node, node.currentRunRequest.instances[i])]
    ELSE node.receivedRunInstances

RECURSIVE CollectInstances(_, _)
CollectInstances(nodeList, n) ==
    IF n > Len(nodeList) THEN <<>>
    ELSE NodeStatusEntries(nodeList[n]) \o CollectInstances(nodeList, n + 1)

\* the loop over the nodes: the collected statuses and the nodes with the
\* wait flags cleared
CollectRunStatus(nodeList) ==
    [instances |-> CollectInstances(nodeList, 1),
     nodes |-> [n \in 1..Len(nodeList) |-> [nodeList[n] EXCEPT !.waitStatus = FALSE]]]

\* every known service without any instance that runs, new or not
ErrorServicesOfAll(newServices, instances) ==
    SelectSeq(<<"serv1", "serv2", "serv3", "serv4">>, LAMBDA service :
        ~\E i \in 1..Len(instances) :
            /\ instances[i].InstanceIdent.ServiceID = service
            /\ instances[i].ErrorInfo = "")

\* the new services without any instance that runs: reported as error
\* services and reverted
ErrorServices(newServices, instances) ==
    SelectSeq(newServices, LAMBDA newService :
        ~\E i \in 1..Len(instances) :
            /\ instances[i].InstanceIdent.ServiceID = newService
            /\ instances[i].ErrorInfo = "")

\* the instances processStoppedInstances cleans up
StoppedInstances(oldStatus, newStatus) ==
    LET errorInstances ==
            [i \in 1..Len(SelectSeq(newStatus, LAMBDA st : st.ErrorInfo # "")) |->
                SelectSeq(newStatus, LAMBDA st : st.ErrorInfo # "")[i].InstanceIdent]
        Matches(cur) == {j \in 1..Len(newStatus) :
                            newStatus[j].InstanceIdent = cur.InstanceIdent}
        Stopped(cur) ==
            IF Matches(cur) = {}
            THEN cur.ErrorInfo = ""
            ELSE LET j == CHOOSE m \in Matches(cur) : \A o \in Matches(cur) : m <= o
                 IN newStatus[j].ErrorInfo # "" /\ cur.ErrorInfo = ""
        stopped == SelectSeq(oldStatus, Stopped)
    IN errorInstances \o [i \in 1..Len(stopped) |-> stopped[i].InstanceIdent]

\* the message sent on the run status channel for the collected statuses
RunStatusToSend(instances, newServices, runStatus, errorStatus) ==
    [Instances |-> instances \o errorStatus,
     ErrorServices |-> ErrorServices(newServices, instances),
     cleaned |-> StoppedInstances(runStatus, instances)]

(***************************************************************************)
(* State.                                                                  *)
(***************************************************************************)
VARIABLES
    mutex,                    \* holder of the launcher's sync.Mutex, or "free"
    pcApi,                    \* the handler the API caller is in, or "idle"
    pcChan,                   \* the handler processChannels is in, or "idle"
    pcTimer,                  \* position of the timer's sendCurrentStatus
    timerBinding,             \* whether Reset and Stop reach the running timer
    timerArmed,               \* the connection timer is counting down
    timerCallbacks,           \* expirations whose sendCurrentStatus has not started
    collected,                \* runStatusToSend.Instances of the timer's call
    collectedPass,            \* the pass the timer's call collected in
    NodeIDs,                  \* config.SMController.NodeIDs
    nodes,                    \* launcher.nodes
    currentDesiredInstances,
    currentRunStatus,
    currentErrorStatus,
    pendingNewServices,
    storage,                  \* stored instances: InstanceIdent -> UID
    uidPool,                  \* UIDs in use
    network,                  \* network parameters: InstanceIdent -> IP
    unitConfig,               \* the resource manager's unit configurations
    smRequests,               \* per node, the run requests not yet answered
    lastStatus,               \* the last message sent on runStatusChannel
    pass,                     \* the current pass: kind, who emitted, who handled,
                              \* the alert's node and the node an instance moved to
    passes                    \* number of passes started

\* the group downloader (unitstatushandler/groupdownloader.go)
VARIABLES
    pcDownload,               \* position of download, "idle" outside a call
    request,                  \* the identifiers of the request
    continueOnError,
    outcome,                  \* per id, what its download does when left alone
    ctxCanceled,              \* the caller's context is cancelled
    downloadCtxCanceled,      \* downloadCtx.Err() != nil
    toStart,                  \* the identifiers the download loop has not reached
    inWait,                  \* the identifiers whose goroutine is in Wait
    result,                   \* result[id].Error, result[id].FileName
    notified,                 \* per id, the statuses given to updateStatus
    failure                   \* per id, the error its Download or Wait returned

downloadVars == <<pcDownload, request, continueOnError, outcome, ctxCanceled,
                  downloadCtxCanceled, toStart, inWait, result, notified, failure>>

\* the firmware and the software update manager (unitstatushandler)
VARIABLES
    manager,                  \* the running manager: Kind, CurrentState, CurrentUpdate,
                              \* DownloadResult and the desired status it has queued
    stored,                   \* the state the manager saved to the storage
    statusChannel,            \* the statuses sent on the channel of the running manager
    environment,              \* which downloads fail, whether the update fails and
                              \* which types of downloads cannot be released
    downloads,                \* the types of downloads the downloader holds
    lifetime                  \* of the running manager: the state and the update it
                              \* started from, whether it processed a desired status,
                              \* and how many desired statuses and restarts there were

updateVars == <<manager, stored, statusChannel, environment, downloads, lifetime>>

\* the update synchronizer (unitstatushandler)
VARIABLES
    syncTasks,                \* every task given to execute, in the order of the calls:
                              \* its number, who gave it and its context
    syncQueue,                \* the tasks that wait for their turn
    syncRunning,              \* the tasks that run
    syncTaken,                \* the numbers of the tasks in the order of their turns
    syncStarted,              \* the numbers of the tasks in the order they began to run
    syncFinished,             \* the numbers of the tasks in the order they returned
    ctxCancelled,             \* the contexts that were cancelled
    cancelTurn                \* how many turns were taken when the context was cancelled

syncVars == <<syncTasks, syncQueue, syncRunning, syncTaken, syncStarted, syncFinished,
              ctxCancelled, cancelTurn>>

\* the timetable of the updates (unitstatushandler)
VARIABLES
    fromDate,                 \* the instant: the day of the week (time.Weekday, Sunday
                              \* is 0) and the time of the day
    timetable,                \* the timetable given to getAvailableTimetableTime
    availableTime             \* what getAvailableTimetableTime returned

timeVars == <<fromDate, timetable, availableTime>>

\* the AMQP handler (amqphandler)
VARIABLES
    handlerLock,              \* who holds the mutex of the handler
    isConnected,              \* handler.isConnected
    connectionOpen,           \* the send connection is open
    sendChannel,              \* handler.sendChannel
    pendingChannel,           \* handler.pendingChannel
    sendTry,                  \* handler.sendTry
    sender,                   \* runSender: where it is, whether it reads sendChannel,
                              \* the message it waits the confirmation of and whether
                              \* the cloud received that message
    published,                \* the messages the cloud received, in order
    scheduled,                \* the number of messages given to the handler
    notConnected              \* the numbers of the messages answered ErrNotConnected

amqpVars == <<handlerLock, isConnected, connectionOpen, sendChannel, pendingChannel,
              sendTry, sender, published, scheduled, notConnected>>

\* the update manager controller (umcontroller)
VARIABLES
    umState,                  \* the state of every update manager
    umVersion,                \* the version of the components of every update manager
    umConnected,              \* the update managers that are connected
    umCommand,                \* the request every update manager has to answer
    umFails,                  \* the request at which every update manager fails
    umcRunning,               \* the controller is running
    umcPhase,                 \* the state of the controller
    umcStored,                \* the state the controller saved
    umcReported,              \* the state of every update manager the controller knows
    umcError,                 \* the error of the update
    umcResult,                \* what UpdateComponents returned
    umcSent,                  \* the requests the controller sent, in order, each with
                              \* the states the controller knew when it sent it
    umcBreaks                 \* how often connections were closed and how often the
                              \* controller was created again, and whether the failed
                              \* state was reported by a status or at a registration

umcVars == <<umState, umVersion, umConnected, umCommand, umFails, umcRunning, umcPhase,
             umcStored, umcReported, umcError, umcResult, umcSent, umcBreaks>>

\* the downloader (package downloader): its current downloads and wait queue
VARIABLES
    currentDownloads,         \* the identifiers of the downloads being processed
    waitQueue,                \* the identifiers of the downloads that wait, in order
    ctxDone,                  \* the identifiers of the requests whose context is done
    statusChannels,           \* the statuses sent on the statusChannel of every request
    requested,                \* the identifiers DownloadAndDecrypt was called with
    accepted                  \* the identifiers DownloadAndDecrypt returned a result for

queueVars == <<currentDownloads, waitQueue, ctxDone, statusChannels, requested, accepted>>

\* the goroutines of the launcher at its lock and its run status channel
VARIABLES
    launcherLock,             \* who holds the launcher's mutex
    goroutines,               \* where the API caller, processChannels and the function
                              \* of the connection timer are, and what processChannels
                              \* has received
    runStatusChannel,         \* the number of run statuses in runStatusChannel
    reading                   \* whether the unit status handler reads the channel

channelVars == <<launcherLock, goroutines, runStatusChannel, reading>>

\* the variables of the components added last
moreVars == <<umcVars, queueVars, channelVars>>

\* the variables of the components modelled on their own
restVars == <<syncVars, timeVars, amqpVars, moreVars>>

\* the variables of the components other than the launcher
otherVars == <<downloadVars, updateVars, restVars>>

vars == <<NodeIDs, mutex, pcApi, pcChan, pcTimer, timerBinding, timerArmed, timerCallbacks,
          collected, collectedPass, nodes, currentDesiredInstances, currentRunStatus,
          currentErrorStatus, pendingNewServices, storage, uidPool, network,
          unitConfig, smRequests, lastStatus, pass, passes, otherVars>>

launcherVars == <<nodes, currentDesiredInstances, currentRunStatus,
                  currentErrorStatus, pendingNewServices, storage, uidPool, network>>

timerVars == <<pcTimer, timerCallbacks, collected, collectedPass>>

\* every variable of the launcher
launcherState == <<NodeIDs, mutex, pcApi, pcChan, timerBinding, timerArmed, timerVars,
                   launcherVars, unitConfig, smRequests, lastStatus, pass, passes>>

\* what the actions of the group downloader leave alone
downloadRest == <<launcherState, updateVars, restVars>>

\* what the actions of the update managers leave alone
updateRest == <<launcherState, downloadVars, restVars>>

\* what the actions of the update synchronizer leave alone
syncRest == <<launcherState, downloadVars, updateVars, timeVars, amqpVars, moreVars>>

\* what the actions of the AMQP handler leave alone
amqpRest == <<launcherState, downloadVars, updateVars, syncVars, timeVars, moreVars>>

\* what the actions of the update manager controller leave alone
umcRest == <<launcherState, downloadVars, updateVars, syncVars, timeVars, amqpVars, queueVars,
            channelVars>>

\* what the actions of the downloader leave alone
queueRest == <<launcherState, downloadVars, updateVars, syncVars, timeVars, amqpVars, umcVars,
              channelVars>>

\* what the goroutines at the lock and the run status channel leave alone
channelRest == <<launcherState, downloadVars, updateVars, syncVars, timeVars, amqpVars, umcVars,
                queueVars>>

(***************************************************************************)
(* The group downloader: download(ctx, request, continueOnError,           *)
(* updateStatus).  An error is a sequence of the texts it wraps.           *)
(***************************************************************************)
RequestIDs == {"0", "1", "2"}

DownloadingStatus == "downloading"
DownloadedStatus == "downloaded"
ErrorStatus == "error"

\* context.Canceled
ContextCanceled == <<"context canceled">>

\* the error of the downloader for identifier id
DownloadError(id) == <<"download error", id>>

NoError == <<>>

\* strings.Contains(errString, context.Canceled.Error())
isCancelError(err) == \E i \in 1..Len(err) : err[i] = ContextCanceled[1]

\* what the download of an identifier does when nothing cancels it: it
\* succeeds, Download returns an error, or Wait returns an error
Outcomes == {"success", "downloadFails", "waitFails"}

\* a handleError that never cancels the group
CancelsGroupNever(onError) == FALSE

\* a handleError that always cancels the group
CancelsGroupAlways(onError) == TRUE

\* handleError calls cancelFunc unless the group continues on error
CancelsGroup(onError) == ~onError

\* handleError(id, err): the result, the notifications and downloadCtx
handleError(id, err) ==
    /\ IF ~isCancelError(err)
       THEN /\ result' = [result EXCEPT ![id].Error = err]
            /\ notified' = [notified EXCEPT ![id] = Append(@, ErrorStatus)]
       ELSE UNCHANGED <<result, notified>>
    /\ downloadCtxCanceled' = (downloadCtxCanceled \/ CancelsGroup(continueOnError))
    /\ failure' = [failure EXCEPT ![id] = IF isCancelError(err) THEN @ ELSE err]

\* no download is in progress
DownloadIdle ==
    /\ pcDownload = "idle"
    /\ request = {}
    /\ continueOnError = FALSE
    /\ outcome = [id \in RequestIDs |-> "success"]
    /\ ctxCanceled = FALSE
    /\ downloadCtxCanceled = FALSE
    /\ toStart = {}
    /\ inWait = {}
    /\ result = [id \in {} |-> NoError]
    /\ notified = [id \in RequestIDs |-> <<>>]
    /\ failure = [id \in RequestIDs |-> NoError]

\* download is called: the request, continueOnError and what every single
\* download would do are the inputs
DownloadCalled ==
    /\ pcDownload = "called"
    /\ request = RequestIDs
    /\ continueOnError \in BOOLEAN
    /\ outcome \in [RequestIDs -> Outcomes]
    /\ ctxCanceled = FALSE
    /\ downloadCtxCanceled = FALSE
    /\ toStart = {}
    /\ inWait = {}
    /\ result = [id \in {} |-> NoError]
    /\ notified = [id \in RequestIDs |-> <<>>]
    /\ failure = [id \in RequestIDs |-> NoError]

\* the first loop: a result and the downloading status for every identifier
DownloadNotify ==
    /\ pcDownload = "called"
    /\ result' = [id \in request |-> [FileName |-> "", Error |-> NoError]]
    /\ notified' = [id \in RequestIDs |->
                       IF id \in request THEN Append(notified[id], DownloadingStatus)
                       ELSE notified[id]]
    /\ toStart' = request
    /\ pcDownload' = "starting"
    /\ UNCHANGED <<downloadRest, request, continueOnError, outcome, ctxCanceled,
                   downloadCtxCanceled, inWait, failure>>

\* one iteration of the download loop, for any identifier not yet reached
DownloadStart ==
    /\ pcDownload = "starting"
    /\ \E id \in toStart :
         IF outcome[id] = "downloadFails"
         THEN /\ handleError(id, DownloadError(id))
              /\ toStart' = IF continueOnError THEN toStart \ {id} ELSE {}
              /\ UNCHANGED inWait
         ELSE /\ result' = [result EXCEPT ![id].FileName = id]
              /\ inWait' = inWait \cup {id}
              /\ toStart' = toStart \ {id}
              /\ UNCHANGED <<notified, downloadCtxCanceled, failure>>
    /\ UNCHANGED <<downloadRest, pcDownload, request, continueOnError, outcome,
                   ctxCanceled>>

\* the goroutine of an identifier: Wait returns the error of the download,
\* the error of the cancelled context, or nil
ResultWait ==
    /\ pcDownload = "starting"
    /\ \E id \in inWait :
         /\ \/ /\ outcome[id] = "waitFails"
               /\ handleError(id, DownloadError(id))
            \/ /\ downloadCtxCanceled
               /\ handleError(id, ContextCanceled)
            \/ /\ outcome[id] # "waitFails"
               /\ notified' = [notified EXCEPT ![id] = Append(@, DownloadedStatus)]
               /\ UNCHANGED <<result, downloadCtxCanceled, failure>>
         /\ inWait' = inWait \ {id}
    /\ UNCHANGED <<downloadRest, pcDownload, request, continueOnError, outcome,
                   ctxCanceled, toStart>>

\* the caller cancels the context it gave to download
CancelContext ==
    /\ pcDownload \in {"called", "starting"}
    /\ ~ctxCanceled
    /\ ctxCanceled' = TRUE
    /\ downloadCtxCanceled' = TRUE
    /\ UNCHANGED <<downloadRest, pcDownload, request, continueOnError, outcome,
                   toStart, inWait, result, notified, failure>>

\* after wg.Wait: the identifiers without an error get the error of the
\* cancelled context, and download returns
DownloadReturn ==
    /\ pcDownload = "starting"
    /\ toStart = {}
    /\ inWait = {}
    /\ LET canceled == {id \in request : result[id].Error = NoError}
       IN IF downloadCtxCanceled
          THEN /\ result' = [id \in request |->
                                IF id \in canceled
                                THEN [result[id] EXCEPT !.Error = ContextCanceled]
                                ELSE result[id]]
               /\ notified' = [id \in RequestIDs |->
                                  IF id \in canceled
                                  THEN Append(notified[id], ErrorStatus)
                                  ELSE notified[id]]
          ELSE UNCHANGED <<result, notified>>
    /\ pcDownload' = "returned"
    /\ UNCHANGED <<downloadRest, request, continueOnError, outcome, ctxCanceled,
                   downloadCtxCanceled, toStart, inWait, failure>>

NextDownload ==
    \/ DownloadNotify
    \/ DownloadStart
    \/ ResultWait
    \/ CancelContext
    \/ DownloadReturn

(***************************************************************************)
(* The firmware and the software update manager.  Both download the items  *)
(* of a desired status with the group downloader, wait for the schedule of *)
(* the update, update the unit and return to noUpdate; every transition is *)
(* saved before the manager acts on it.                                    *)
(***************************************************************************)
NoUpdate == "noUpdate"
Downloading == "downloading"
ReadyToUpdate == "readyToUpdate"
Updating == "updating"

ForceUpdate == "force"
TriggerUpdate == "trigger"
TimetableUpdate == "timetable"

ManagerKinds == {"firmware", "software"}

\* the items a desired status asks to download
UpdateItems == {"item1", "item2"}

\* the desired statuses: the set of items, the schedule rule and its TTL
DesiredUpdates ==
    [Components : {"updateComponents", "otherUpdateComponents"},
     Type : {ForceUpdate, TriggerUpdate, TimetableUpdate},
     TTL : {0, 3}]

\* no update is planned
NoPlan == [Components |-> "", Type |-> "", TTL |-> 0]

NoResult == [id \in UpdateItems |-> NoError]

UpdateError == <<"update error">>

\* a manager that reports the end of the TTL as a failed update
UpdateTimeoutAsError == <<"update error">>

UpdateTimeout == <<"update timeout">>

UpdateStatus(state, err) == [State |-> state, Error |-> err]

\* the types of the downloads: cloudprotocol.DownloadTargetComponent,
\* DownloadTargetService and DownloadTargetLayer
DownloadTargets == {"component", "service", "layer"}

Environments ==
    [downloadFails : [UpdateItems -> BOOLEAN], updateFails : BOOLEAN,
     releaseFails : SUBSET DownloadTargets]

\* the types a manager downloads
TargetsOf(kind) == IF kind = "firmware" THEN {"component"} ELSE {"service", "layer"}

\* Downloader.ReleaseByType: the downloads left and whether it failed
ReleaseByType(held, fails, type) ==
    IF type \in fails THEN [held |-> held, err |-> TRUE]
    ELSE [held |-> held \ {type}, err |-> FALSE]

releaseDownloadedFirmware(held, fails) == ReleaseByType(held, fails, "component").held

\* the layers are released when the release of the services did not fail
releaseDownloadedSoftware(held, fails) ==
    IF ReleaseByType(held, fails, "service").err THEN held
    ELSE ReleaseByType(ReleaseByType(held, fails, "service").held, fails, "layer").held

\* the downloads left when the manager has released its downloads
release(kind, held, fails) ==
    IF kind = "firmware" THEN releaseDownloadedFirmware(held, fails)
    ELSE releaseDownloadedSoftware(held, fails)

\* the results download can return: without continueOnError a failure
\* cancels the group, so some failing items keep their error and every
\* other item gets the error of the cancelled context
downloadResults(onError, fails) ==
    LET failing == {id \in UpdateItems : fails[id]}
    IN IF failing = {} THEN {NoResult}
       ELSE IF onError
       THEN {[id \in UpdateItems |-> IF fails[id] THEN DownloadError(id) ELSE NoError]}
       ELSE {[id \in UpdateItems |->
                 IF id \in own THEN DownloadError(id) ELSE ContextCanceled] :
             own \in (SUBSET failing) \ {{}}}

\* the error of any item, the error of a cancelled download included
getDownloadErrorOfAny(downloaded) ==
    LET errors == {downloaded[id] : id \in {i \in UpdateItems : downloaded[i] # NoError}}
    IN IF errors = {} THEN {NoError} ELSE errors

\* getDownloadError: the error of any item that is not a cancel error, in
\* the order of the map
getDownloadError(downloaded) ==
    LET errors == {downloaded[id] : id \in {i \in UpdateItems :
                       downloaded[i] # NoError /\ ~isCancelError(downloaded[i])}}
    IN IF errors = {} THEN {NoError} ELSE errors

\* a manager that starts the update as soon as the download returns
downloadedStatusUpdating(kind, downloaded) == {UpdateStatus(Updating, NoError)}

\* the status after the download: the firmware manager gives up on any
\* download error, the software manager when every item failed
downloadedStatus(kind, downloaded) ==
    LET failed == IF kind = "firmware"
                  THEN \E id \in UpdateItems : downloaded[id] # NoError
                  ELSE \A id \in UpdateItems : downloaded[id] # NoError
    IN {UpdateStatus(IF failed THEN NoUpdate ELSE ReadyToUpdate, err) :
        err \in getDownloadError(downloaded)}

\* what the manager saves
persist(m) ==
    [CurrentState |-> m.CurrentState, CurrentUpdate |-> m.CurrentUpdate,
     DownloadResult |-> m.DownloadResult]

NoState == [CurrentState |-> NoUpdate, CurrentUpdate |-> NoPlan, DownloadResult |-> NoResult]

\* a manager that downloads again when it was ready to update
newManagerDownloadingAgain(kind, state) ==
    [Kind |-> kind,
     CurrentState |-> IF state.CurrentState = ReadyToUpdate THEN Downloading
                      ELSE state.CurrentState,
     CurrentUpdate |-> state.CurrentUpdate, DownloadResult |-> state.DownloadResult,
     pendingUpdate |-> NoPlan, elapsed |-> 0, closed |-> FALSE]

\* newFirmwareManager, newSoftwareManager: the manager continues from the
\* state it finds in the storage
newManager(kind, state) ==
    [Kind |-> kind, CurrentState |-> state.CurrentState,
     CurrentUpdate |-> state.CurrentUpdate, DownloadResult |-> state.DownloadResult,
     pendingUpdate |-> NoPlan, elapsed |-> 0, closed |-> FALSE]

newLifetime(state, updates, restarts) ==
    [InitState |-> state.CurrentState, InitUpdate |-> state.CurrentUpdate,
     desired |-> FALSE, updates |-> updates, restarts |-> restarts]

\* the manager plans update and begins to download
startPlan(m, update) ==
    [m EXCEPT !.CurrentState = Downloading, !.CurrentUpdate = update,
              !.DownloadResult = NoResult, !.pendingUpdate = NoPlan, !.elapsed = 0]

\* the manager returns to noUpdate and clears its plan
clearPlan(m) ==
    [m EXCEPT !.CurrentState = NoUpdate, !.CurrentUpdate = NoPlan,
              !.DownloadResult = NoResult, !.elapsed = 0]

\* one manager with nothing stored, where nothing fails
ManagerIdle ==
    /\ manager = newManager("firmware", NoState)
    /\ stored = NoState
    /\ statusChannel = <<>>
    /\ environment = [downloadFails |-> [id \in UpdateItems |-> FALSE],
                      updateFails |-> FALSE, releaseFails |-> {}]
    /\ downloads = {}
    /\ lifetime = newLifetime(NoState, 0, 0)

\* a firmware or a software manager is created on an empty storage
ManagerCreated ==
    /\ \E kind \in ManagerKinds :
         /\ manager = newManager(kind, NoState)
         /\ environment \in {e \in Environments : e.releaseFails \subseteq TargetsOf(kind)}
    /\ stored = NoState
    /\ statusChannel = <<>>
    /\ downloads = {}
    /\ lifetime = newLifetime(NoState, 0, 0)

\* a manager that says nothing when it cancels its plan
cancelStatusNone(state) == <<>>

\* what a manager sends when a new desired status cancels its plan
cancelStatus(state) ==
    IF state = NoUpdate THEN <<>> ELSE <<UpdateStatus(NoUpdate, ContextCanceled)>>

\* a manager that never queues a desired status
queuesUpdateNever(state) == FALSE

\* a desired status that arrives while the unit is updated waits for the
\* end of the update
queuesUpdate(state) == state = Updating

\* processDesiredStatus: a new plan when idle; while downloading or ready
\* to update a different desired status cancels the plan and starts a new
\* one; while updating it is queued
processDesiredStatus ==
    /\ ~manager.closed
    /\ lifetime.updates < MaxUpdates
    /\ \E update \in DesiredUpdates :
         /\ update # manager.CurrentUpdate
         /\ IF queuesUpdate(manager.CurrentState)
            THEN /\ manager' = [manager EXCEPT !.pendingUpdate = update]
                 /\ lifetime' = [lifetime EXCEPT !.desired = TRUE, !.updates = @ + 1]
                 /\ UNCHANGED <<stored, statusChannel, downloads>>
            ELSE /\ manager' = startPlan(manager, update)
                 /\ stored' = persist(startPlan(manager, update))
                 /\ statusChannel' = (statusChannel \o cancelStatus(manager.CurrentState))
                                         \o <<UpdateStatus(Downloading, NoError)>>
                 /\ downloads' =
                        (IF manager.CurrentState = NoUpdate THEN downloads
                         ELSE release(manager.Kind, downloads, environment.releaseFails))
                        \cup TargetsOf(manager.Kind)
                 /\ lifetime' = [lifetime EXCEPT !.desired = TRUE, !.updates = @ + 1]
    /\ UNCHANGED <<updateRest, environment>>

\* the download of the plan returns
downloadDone ==
    /\ ~manager.closed
    /\ manager.CurrentState = Downloading
    /\ \E downloaded \in downloadResults(manager.Kind = "software",
                                         environment.downloadFails) :
       \E status \in downloadedStatus(manager.Kind, downloaded) :
         LET next == IF status.State = NoUpdate THEN clearPlan(manager)
                     ELSE [manager EXCEPT !.CurrentState = status.State,
                                          !.DownloadResult = downloaded]
         IN /\ manager' = next
            /\ stored' = persist(next)
            /\ statusChannel' = Append(statusChannel, status)
            /\ downloads' = IF status.State = NoUpdate
                            THEN release(manager.Kind, downloads, environment.releaseFails)
                            ELSE downloads
    /\ UNCHANGED <<updateRest, environment, lifetime>>

\* the manager begins to update the unit
beginUpdate ==
    LET next == [manager EXCEPT !.CurrentState = Updating]
    IN /\ manager' = next
       /\ stored' = persist(next)
       /\ statusChannel' = Append(statusChannel, UpdateStatus(Updating, NoError))
       /\ UNCHANGED <<updateRest, environment, downloads, lifetime>>

\* startUpdate: the trigger of an update with the trigger schedule
startUpdate ==
    /\ ~manager.closed
    /\ manager.CurrentState = ReadyToUpdate
    /\ manager.CurrentUpdate.Type = TriggerUpdate
    /\ beginUpdate

\* a forced update starts at once, a timetable update in its time slot
scheduledUpdate ==
    /\ ~manager.closed
    /\ manager.CurrentState = ReadyToUpdate
    /\ manager.CurrentUpdate.Type # TriggerUpdate
    /\ beginUpdate

\* the TTL of the schedule runs while the manager waits for the update
WaitsWithTTL ==
    /\ ~manager.closed
    /\ manager.CurrentState = ReadyToUpdate
    /\ manager.CurrentUpdate.Type # ForceUpdate
    /\ manager.CurrentUpdate.TTL > 0

\* a second passes while the manager waits for the update
tick ==
    /\ WaitsWithTTL
    /\ manager.elapsed < manager.CurrentUpdate.TTL
    /\ manager' = [manager EXCEPT !.elapsed = @ + 1]
    /\ UNCHANGED <<updateRest, stored, statusChannel, environment, downloads, lifetime>>

\* the TTL of the schedule ends before the update began
updateTimeout ==
    /\ WaitsWithTTL
    /\ manager.elapsed = manager.CurrentUpdate.TTL
    /\ manager' = clearPlan(manager)
    /\ stored' = persist(clearPlan(manager))
    /\ statusChannel' = Append(statusChannel, UpdateStatus(NoUpdate, UpdateTimeout))
    /\ downloads' = release(manager.Kind, downloads, environment.releaseFails)
    /\ UNCHANGED <<updateRest, environment, lifetime>>

\* the update of the unit returns; a queued desired status is planned then
updateDone ==
    /\ ~manager.closed
    /\ manager.CurrentState = Updating
    /\ LET finished == UpdateStatus(NoUpdate, IF environment.updateFails THEN UpdateError
                                              ELSE NoError)
           next == IF manager.pendingUpdate = NoPlan THEN clearPlan(manager)
                   ELSE startPlan(manager, manager.pendingUpdate)
       IN /\ manager' = next
          /\ stored' = persist(next)
          /\ statusChannel' = IF manager.pendingUpdate = NoPlan
                               THEN Append(statusChannel, finished)
                               ELSE statusChannel \o
                                        <<finished, UpdateStatus(Downloading, NoError)>>
          /\ downloads' =
                 release(manager.Kind, downloads, environment.releaseFails)
                 \cup (IF manager.pendingUpdate = NoPlan THEN {}
                       ELSE TargetsOf(manager.Kind))
    /\ UNCHANGED <<updateRest, environment, lifetime>>

\* the process stops and starts again: a new manager, with a new status
\* channel, is created on the storage
restart ==
    /\ lifetime.restarts < MaxRestarts
    /\ manager' = newManager(manager.Kind, stored)
    /\ statusChannel' = <<>>
    /\ lifetime' = newLifetime(stored, lifetime.updates, lifetime.restarts + 1)
    /\ UNCHANGED <<updateRest, environment, stored, downloads>>

\* close: the manager stops and releases its downloads
close ==
    /\ ~manager.closed
    /\ manager' = [manager EXCEPT !.closed = TRUE]
    /\ downloads' = release(manager.Kind, downloads, environment.releaseFails)
    /\ UNCHANGED <<updateRest, stored, statusChannel, environment, lifetime>>

NextUpdate ==
    \/ processDesiredStatus
    \/ downloadDone
    \/ startUpdate
    \/ scheduledUpdate
    \/ tick
    \/ updateTimeout
    \/ updateDone
    \/ restart
    \/ close

\* ---------------------------------------------------------------------
\* The update synchronizer: execute(ctx, fn) queues a task; the tasks run
\* one at a time in the order they were given, and a task whose context is
\* cancelled when its turn comes is dropped.

MaxTasks == 4

\* who gives tasks to the synchronizer
TaskOwners == {"unitConfig", "fota", "sota"}

\* context.Background() and a context with a cancel function
TaskContexts == {"background", "cancelCtx"}

\* no context was cancelled yet
NotCancelled == MaxTasks + 1

SynchronizerIdle ==
    /\ syncTasks = <<>>
    /\ syncQueue = <<>>
    /\ syncRunning = {}
    /\ syncTaken = <<>>
    /\ syncStarted = <<>>
    /\ syncFinished = <<>>
    /\ ctxCancelled = {}
    /\ cancelTurn = NotCancelled

\* a synchronizer that starts a task whenever one waits
CanStartAlways(running) == TRUE

\* the next task starts when no task runs
CanStart(running) == running = {}

\* a synchronizer that runs the tasks of a cancelled context
IsDroppedNever(task, cancelled) == FALSE

\* the task is dropped when its context is cancelled at its turn
IsDropped(task, cancelled) == task.ctx \in cancelled

\* updateSynchronizer.execute(ctx, fn)
execute ==
    /\ Len(syncTasks) < MaxTasks
    /\ \E owner \in TaskOwners, ctx \in TaskContexts :
         LET task == [id |-> Len(syncTasks), owner |-> owner, ctx |-> ctx]
         IN /\ syncTasks' = Append(syncTasks, task)
            /\ syncQueue' = Append(syncQueue, task)
    /\ UNCHANGED <<syncRest, syncRunning, syncTaken,
                   syncStarted, syncFinished, ctxCancelled, cancelTurn>>

\* cancelFunc() of the context
cancelTasks ==
    /\ "cancelCtx" \notin ctxCancelled
    /\ ctxCancelled' = ctxCancelled \cup {"cancelCtx"}
    /\ cancelTurn' = Len(syncTaken)
    /\ UNCHANGED <<syncRest, syncTasks, syncQueue,
                   syncRunning, syncTaken, syncStarted, syncFinished>>

\* the turn of the first task that waits: it runs or it is dropped
takeTask ==
    /\ syncQueue # <<>>
    /\ CanStart(syncRunning)
    /\ syncQueue' = Tail(syncQueue)
    /\ syncTaken' = Append(syncTaken, Head(syncQueue).id)
    /\ IF IsDropped(Head(syncQueue), ctxCancelled)
       THEN UNCHANGED <<syncRunning, syncStarted>>
       ELSE /\ syncRunning' = syncRunning \cup {Head(syncQueue)}
            /\ syncStarted' = Append(syncStarted, Head(syncQueue).id)
    /\ UNCHANGED <<syncRest, syncTasks, syncFinished,
                   ctxCancelled, cancelTurn>>

\* a running task returns
finishTask ==
    /\ \E task \in syncRunning :
         /\ syncRunning' = syncRunning \ {task}
         /\ syncFinished' = Append(syncFinished, task.id)
    /\ UNCHANGED <<syncRest, syncTasks, syncQueue,
                   syncTaken, syncStarted, ctxCancelled, cancelTurn>>

NextSync ==
    \/ execute
    \/ cancelTasks
    \/ takeTask
    \/ finishTask

\* ---------------------------------------------------------------------
\* The timetable: getAvailableTimetableTime(fromDate, timetable) validates
\* the timetable and returns the time until the update may begin.  The
\* time of the day is counted in parts of the day.

DayTicks == 3

WeekTicks == 7 * DayTicks

\* the slots: start and finish are times of the day
TimeSlots == [Start : 0..(DayTicks - 1), Finish : 0..(DayTicks - 1)]

\* the days of the week of the entries: 1 is Monday and 7 is Sunday; 0 is
\* not a day of the week
DaysOfWeek == {0, 1, 2, 7}

\* the timetables: none, one entry with up to two slots, or two entries
\* of one slot
Timetables ==
    {<<>>}
    \cup {<<[DayOfWeek |-> day, TimeSlots |-> slots]>> :
             day \in DaysOfWeek,
             slots \in {<<>>} \cup {<<slot>> : slot \in TimeSlots}
                       \cup {<<s1, s2>> : s1 \in TimeSlots, s2 \in TimeSlots}}
    \cup {<<[DayOfWeek |-> d1, TimeSlots |-> <<s1>>],
             [DayOfWeek |-> d2, TimeSlots |-> <<s2>>]>> :
             d1 \in DaysOfWeek, d2 \in DaysOfWeek, s1 \in TimeSlots, s2 \in TimeSlots}

\* the instants: time.Weekday of the date and the time of the day
Instants == [Weekday : {0, 1, 2, 6}, Tick : 0..(DayTicks - 1)]

NotComputed == [err |-> "not computed", time |-> 0]

\* the first error of the timetable, "" when there is none: a slot whose
\* start is after its finish is an error, a slot whose start is its finish
\* is not
validateTimetable(table) ==
    IF table = <<>> THEN "timetable is empty"
    ELSE IF \E i \in 1..Len(table) : table[i].DayOfWeek < 1 \/ table[i].DayOfWeek > 7
    THEN "invalid day of week value"
    ELSE IF \E i \in 1..Len(table) : table[i].TimeSlots = <<>>
    THEN "no time slots"
    ELSE IF \E i \in 1..Len(table) : \E j \in 1..Len(table[i].TimeSlots) :
                table[i].TimeSlots[j].Start > table[i].TimeSlots[j].Finish
    THEN "start value should be before finish value"
    ELSE ""

\* the days from the day of the instant to the day of the entry
shiftDays(from, day) == ((day % 7) - from.Weekday + 7) % 7

\* the time from the instant to the start of the slot: nothing inside the
\* slot, a week later when the slot of this week began before the instant
slotDuration(from, day, slot) ==
    LET startDate == shiftDays(from, day) * DayTicks + slot.Start
        finishDate == shiftDays(from, day) * DayTicks + slot.Finish
    IN IF startDate - from.Tick >= 0 THEN startDate - from.Tick
       ELSE IF finishDate - from.Tick > 0 THEN 0
       ELSE startDate + WeekTicks - from.Tick

\* the smallest number of a non-empty set of numbers
Least(numbers) == CHOOSE n \in numbers : \A m \in numbers : n <= m

getAvailableTimetableTime(from, table) ==
    IF validateTimetable(table) # "" THEN [err |-> validateTimetable(table), time |-> 0]
    ELSE [err |-> "",
          time |-> Least(UNION {{slotDuration(from, table[i].DayOfWeek,
                                                   table[i].TimeSlots[j]) :
                                      j \in 1..Len(table[i].TimeSlots)} :
                                 i \in 1..Len(table)})]

TimetableIdle ==
    /\ fromDate = [Weekday |-> 1, Tick |-> 0]
    /\ timetable = <<>>
    /\ availableTime = NotComputed

\* the call of getAvailableTimetableTime
computeAvailableTime ==
    /\ availableTime = NotComputed
    /\ availableTime' = getAvailableTimetableTime(fromDate, timetable)
    /\ UNCHANGED <<launcherState, downloadVars, updateVars, syncVars, amqpVars, moreVars,
                   fromDate, timetable>>

NextTimetable == computeAvailableTime

\* ---------------------------------------------------------------------
\* The AMQP handler: the Send functions put a message in sendChannel, and
\* runSender, started by Connect, moves one message at a time to
\* pendingChannel, publishes it and waits for its confirmation.

MaxMessages == 3

sendChannelSize == 32

sendMaxTry == 3

\* the messages: a unit status is not important, alerts are
MessageTypes == {"unitStatus", "alerts"}

IsImportant(messageType) == messageType = "alerts"

NoMessage == [id |-> 0, type |-> "", connected |-> FALSE]

SenderStopped ==
    [pc |-> "stopped", sendChannel |-> FALSE, message |-> NoMessage, received |-> FALSE]

SenderIdle ==
    /\ handlerLock = "free"
    /\ isConnected = FALSE
    /\ connectionOpen = FALSE
    /\ sendChannel = <<>>
    /\ pendingChannel = <<>>
    /\ sendTry = 0
    /\ sender = SenderStopped
    /\ published = <<>>
    /\ scheduled = 0
    /\ notConnected = {}

\* a handler that takes every message
IsRejectedNever(important, connected) == FALSE

\* scheduleMessage: a message that is not important is not taken when the
\* handler is not connected
IsRejected(important, connected) == ~important /\ ~connected

\* a sender that puts the message it has to send again behind the others
RequeueLast(message, queue) ==
    [sendChannel |-> Append(queue, message), pendingChannel |-> <<>>, reads |-> TRUE]

\* runSender: the message that was not confirmed goes back to
\* pendingChannel, and sendChannel is not read
Requeue(message, queue) ==
    [sendChannel |-> queue, pendingChannel |-> <<message>>, reads |-> FALSE]

\* Connect, until the connections are set up: runSender is started, and
\* reads sendChannel when pendingChannel is empty
ConnectSetup ==
    /\ handlerLock = "free"
    /\ ~isConnected
    /\ handlerLock' = "connect"
    /\ connectionOpen' = TRUE
    /\ sender' = [pc |-> "select", sendChannel |-> pendingChannel = <<>>,
                  message |-> NoMessage, received |-> FALSE]
    /\ UNCHANGED <<amqpRest, isConnected, sendChannel, pendingChannel, sendTry,
                   published, scheduled, notConnected>>

\* Connect returns: isConnected = true
ConnectDone ==
    /\ handlerLock = "connect"
    /\ handlerLock' = "free"
    /\ isConnected' = TRUE
    /\ UNCHANGED <<amqpRest, connectionOpen, sendChannel, pendingChannel, sendTry,
                   sender, published, scheduled, notConnected>>

\* Disconnect, until the connections are closed
DisconnectClose ==
    /\ handlerLock = "free"
    /\ isConnected
    /\ handlerLock' = "disconnect"
    /\ connectionOpen' = FALSE
    /\ UNCHANGED <<amqpRest, isConnected, sendChannel, pendingChannel, sendTry,
                   sender, published, scheduled, notConnected>>

\* Disconnect returns when runSender has returned: isConnected = false
DisconnectDone ==
    /\ handlerLock = "disconnect"
    /\ sender.pc = "stopped"
    /\ handlerLock' = "free"
    /\ isConnected' = FALSE
    /\ UNCHANGED <<amqpRest, connectionOpen, sendChannel, pendingChannel, sendTry,
                   sender, published, scheduled, notConnected>>

\* the connection to the cloud breaks
ConnectionLost ==
    /\ connectionOpen
    /\ connectionOpen' = FALSE
    /\ UNCHANGED <<amqpRest, handlerLock, isConnected, sendChannel, pendingChannel,
                   sendTry, sender, published, scheduled, notConnected>>

\* scheduleMessage under the mutex of the handler: ErrNotConnected, the
\* message in sendChannel, or ErrSendChannelFull
scheduleMessage(messageType) ==
    /\ handlerLock = "free"
    /\ scheduled < MaxMessages
    /\ scheduled' = scheduled + 1
    /\ IF IsRejected(IsImportant(messageType), isConnected)
       THEN /\ notConnected' = notConnected \cup {scheduled}
            /\ UNCHANGED sendChannel
       ELSE /\ sendChannel' =
                  IF Len(sendChannel) < sendChannelSize
                  THEN Append(sendChannel, [id |-> scheduled, type |-> messageType,
                                            connected |-> isConnected])
                  ELSE sendChannel
            /\ UNCHANGED notConnected
    /\ UNCHANGED <<amqpRest, handlerLock, isConnected, connectionOpen, pendingChannel,
                   sendTry, sender, published>>

SendUnitStatus == scheduleMessage("unitStatus")

SendAlerts == scheduleMessage("alerts")

\* runSender: the connection was closed
SenderClosed ==
    /\ sender.pc = "select"
    /\ ~connectionOpen
    /\ sender' = SenderStopped
    /\ UNCHANGED <<amqpRest, handlerLock, isConnected, connectionOpen, sendChannel,
                   pendingChannel, sendTry, published, scheduled, notConnected>>

\* runSender: the next message of sendChannel goes to pendingChannel
SenderTake ==
    /\ sender.pc = "select"
    /\ sender.sendChannel
    /\ sendChannel # <<>>
    /\ pendingChannel = <<>>
    /\ sendTry' = 0
    /\ sender' = [sender EXCEPT !.sendChannel = FALSE]
    /\ pendingChannel' = <<Head(sendChannel)>>
    /\ sendChannel' = Tail(sendChannel)
    /\ UNCHANGED <<amqpRest, handlerLock, isConnected, connectionOpen, published,
                   scheduled, notConnected>>

\* runSender and sendMessage: the message of pendingChannel is given up
\* after sendMaxTry tries, else it is published, which the cloud receives
\* when the connection is open
SenderSend ==
    /\ sender.pc = "select"
    /\ pendingChannel # <<>>
    /\ pendingChannel' = <<>>
    /\ sendTry' = sendTry + 1
    /\ IF sendTry + 1 > sendMaxTry
       THEN /\ sender' = [sender EXCEPT !.sendChannel = TRUE]
            /\ UNCHANGED published
       ELSE /\ sender' = [sender EXCEPT !.pc = "confirm", !.message = pendingChannel[1],
                                        !.received = connectionOpen]
            /\ published' = IF connectionOpen THEN Append(published, pendingChannel[1])
                            ELSE published
    /\ UNCHANGED <<amqpRest, handlerLock, isConnected, connectionOpen, sendChannel,
                   scheduled, notConnected>>

\* runSender: the confirmation: with an acknowledgement sendChannel is read
\* again; without it, or when the channel of the confirmations was closed,
\* the message is to be sent again
SenderConfirm ==
    /\ sender.pc = "confirm"
    /\ \E ack \in IF sender.received THEN BOOLEAN ELSE {FALSE} :
         IF ack
         THEN /\ sender' = [pc |-> "select", sendChannel |-> TRUE,
                            message |-> NoMessage, received |-> FALSE]
              /\ UNCHANGED <<sendChannel, pendingChannel>>
         ELSE /\ sender' = [pc |-> "select",
                            sendChannel |-> Requeue(sender.message, sendChannel).reads,
                            message |-> NoMessage, received |-> FALSE]
              /\ sendChannel' = Requeue(sender.message, sendChannel).sendChannel
              /\ pendingChannel' = Requeue(sender.message, sendChannel).pendingChannel
    /\ UNCHANGED <<amqpRest, handlerLock, isConnected, connectionOpen, sendTry,
                   published, scheduled, notConnected>>

NextSender ==
    \/ ConnectSetup
    \/ ConnectDone
    \/ DisconnectClose
    \/ DisconnectDone
    \/ ConnectionLost
    \/ SendUnitStatus
    \/ SendAlerts
    \/ SenderClosed
    \/ SenderTake
    \/ SenderSend
    \/ SenderConfirm

\* ---------------------------------------------------------------------
\* The update manager controller: UpdateComponents prepares, updates and
\* applies the update on the update managers in the order of their
\* priority, or reverts it when an update manager fails.

UMs == <<"um1", "um2">>

UMIDs == {UMs[i] : i \in 1..Len(UMs)}

MaxDisconnects == 2

MaxControllerRestarts == 1

\* the update managers that fail never, when they prepare or when they update
UMFailures == [UMIDs -> {"never", "prepare", "update"}]

\* the state the controller is in and saves when no update runs
UmcIdleState == "idle"

UmcIdle ==
    /\ umState = [um \in UMIDs |-> "idle"]
    /\ umVersion = [um \in UMIDs |-> 1]
    /\ umConnected = [um \in UMIDs |-> TRUE]
    /\ umCommand = [um \in UMIDs |-> "none"]
    /\ umFails = [um \in UMIDs |-> "never"]
    /\ umcRunning = TRUE
    /\ umcPhase = UmcIdleState
    /\ umcStored = UmcIdleState
    /\ umcReported = [um \in UMIDs |-> "idle"]
    /\ umcError = ""
    /\ umcResult = "none"
    /\ umcSent = <<>>
    /\ umcBreaks = [disconnects |-> 0, restarts |-> 0, failedBy |-> {}]

\* the state an update manager has to report before the controller leaves
\* the phase
PhaseGoal(phase) ==
    CASE phase = "prepare" -> "prepared"
      [] phase = "update" -> "updated"
      [] OTHER -> "idle"

\* the request of the phase
PhaseRequest(phase) ==
    CASE phase = "prepare" -> "PrepareUpdate"
      [] phase = "update" -> "StartUpdate"
      [] phase = "apply" -> "ApplyUpdate"
      [] OTHER -> "RevertUpdate"

\* a controller that goes on when the first update manager has reported
PhaseReachedByFirst(phase, reported) == reported[UMs[1]] = PhaseGoal(phase)

\* every update manager has reported the state of the phase
PhaseReached(phase, reported) == \A um \in UMIDs : reported[um] = PhaseGoal(phase)

\* the phase after the phase every update manager has reached
PhaseAfter(phase) ==
    CASE phase = "prepare" -> "update"
      [] phase = "update" -> "apply"
      [] OTHER -> UmcIdleState

\* the first update manager, in the order of the priorities, that has not
\* reported the state of the phase
NextUM(phase, reported) ==
    UMs[CHOOSE i \in 1..Len(UMs) :
           /\ reported[UMs[i]] # PhaseGoal(phase)
           /\ \A k \in 1..(i - 1) : reported[UMs[k]] = PhaseGoal(phase)]

\* a controller that begins anew after it was created again
RestoredIdle(saved) == UmcIdleState

\* the controller created again is in the state it saved
Restored(saved) == saved

\* what the update manager does with a request: its state and the version
\* of its components
UMAnswer(um, command, state, version, fails) ==
    CASE command = "PrepareUpdate" ->
           [state |-> IF fails = "prepare" THEN "failed" ELSE "prepared", version |-> version]
      [] command = "StartUpdate" ->
           [state |-> IF fails = "update" THEN "failed" ELSE "updated", version |-> version]
      [] command = "ApplyUpdate" -> [state |-> "idle", version |-> 2]
      [] OTHER -> [state |-> "idle", version |-> 1]

\* UpdateComponents is called: the controller saves and enters the prepare
\* phase
UpdateComponents ==
    /\ umcRunning
    /\ umcPhase = UmcIdleState
    /\ umcResult = "none"
    /\ umcSent = <<>>
    /\ \A um \in UMIDs : umConnected[um] /\ umcReported[um] = "idle"
    /\ umcPhase' = "prepare"
    /\ umcStored' = "prepare"
    /\ UNCHANGED <<umcRest, umState, umVersion, umConnected, umCommand, umFails,
                   umcRunning, umcReported, umcError, umcResult, umcSent, umcBreaks>>

\* the update is running
UpdateRuns == umcPhase # UmcIdleState

\* the controller sends the request of the phase to the next update manager
SendRequest ==
    /\ umcRunning
    /\ UpdateRuns
    /\ \A um \in UMIDs : umConnected[um] /\ umCommand[um] = "none"
    /\ umcPhase \in {"prepare", "update"} => \A um \in UMIDs : umcReported[um] # "failed"
    /\ ~PhaseReached(umcPhase, umcReported)
    /\ LET um == NextUM(umcPhase, umcReported)
       IN /\ umCommand' = [umCommand EXCEPT ![um] = PhaseRequest(umcPhase)]
          /\ umcSent' = Append(umcSent, [um |-> um, request |-> PhaseRequest(umcPhase),
                                         reported |-> umcReported])
    /\ UNCHANGED <<umcRest, umState, umVersion, umConnected, umFails, umcRunning,
                   umcPhase, umcStored, umcReported, umcError, umcResult, umcBreaks>>

\* an update manager reported failed: the controller saves and enters the
\* revert phase
BeginRevert ==
    /\ umcRunning
    /\ umcPhase \in {"prepare", "update"}
    /\ \A um \in UMIDs : umConnected[um]
    /\ \E um \in UMIDs : umcReported[um] = "failed"
    /\ umcPhase' = "revert"
    /\ umcStored' = "revert"
    /\ UNCHANGED <<umcRest, umState, umVersion, umConnected, umCommand, umFails,
                   umcRunning, umcReported, umcError, umcResult, umcSent, umcBreaks>>

\* every update manager reported the state of the phase: the controller
\* saves and enters the next phase; after the last phase UpdateComponents
\* returns
NextPhase ==
    /\ umcRunning
    /\ UpdateRuns
    /\ \A um \in UMIDs : umConnected[um]
    /\ PhaseReached(umcPhase, umcReported)
    /\ umcPhase' = PhaseAfter(umcPhase)
    /\ umcStored' = PhaseAfter(umcPhase)
    /\ umcResult' = IF PhaseAfter(umcPhase) # UmcIdleState \/ umcResult # "none"
                    THEN umcResult
                    ELSE IF umcError # "" THEN "error" ELSE "done"
    /\ UNCHANGED <<umcRest, umState, umVersion, umConnected, umCommand, umFails,
                   umcRunning, umcReported, umcError, umcSent, umcBreaks>>

\* an update manager carries out the request it received and sends its
\* state: with the failed state the update gets its error
UMHandle ==
    /\ umcRunning
    /\ \E um \in UMIDs :
         /\ umConnected[um]
         /\ umCommand[um] # "none"
         /\ LET answer == UMAnswer(um, umCommand[um], umState[um], umVersion[um],
                                   umFails[um])
            IN /\ umState' = [umState EXCEPT ![um] = answer.state]
               /\ umVersion' = [umVersion EXCEPT ![um] = answer.version]
               /\ umcReported' = [umcReported EXCEPT ![um] = answer.state]
               /\ umcError' = IF answer.state = "failed" THEN "update failed" ELSE umcError
               /\ umcBreaks' = IF answer.state = "failed"
                               THEN [umcBreaks EXCEPT !.failedBy = @ \cup {"status"}]
                               ELSE umcBreaks
         /\ umCommand' = [umCommand EXCEPT ![um] = "none"]
    /\ UNCHANGED <<umcRest, umConnected, umFails, umcRunning, umcPhase, umcStored,
                   umcResult, umcSent>>

\* the connection of an update manager is closed: the request it had to
\* answer is carried out or is lost
UMDisconnect ==
    /\ UpdateRuns
    /\ umcBreaks.disconnects < MaxDisconnects
    /\ \E um \in UMIDs :
         /\ umConnected[um]
         /\ umConnected' = [umConnected EXCEPT ![um] = FALSE]
         /\ umCommand' = [umCommand EXCEPT ![um] = "none"]
         /\ \E answer \in {[state |-> umState[um], version |-> umVersion[um]]} \cup
                           (IF umCommand[um] = "none" THEN {}
                            ELSE {UMAnswer(um, umCommand[um], umState[um], umVersion[um],
                                           umFails[um])}) :
              /\ umState' = [umState EXCEPT ![um] = answer.state]
              /\ umVersion' = [umVersion EXCEPT ![um] = answer.version]
    /\ umcBreaks' = [umcBreaks EXCEPT !.disconnects = @ + 1]
    /\ UNCHANGED <<umcRest, umFails, umcRunning, umcPhase, umcStored, umcReported,
                   umcError, umcResult, umcSent>>

\* an update manager connects again and registers with its state
UMConnect ==
    /\ umcRunning
    /\ \E um \in UMIDs :
         /\ ~umConnected[um]
         /\ umConnected' = [umConnected EXCEPT ![um] = TRUE]
         /\ umcReported' = [umcReported EXCEPT ![um] = umState[um]]
         /\ umcBreaks' = IF umState[um] = "failed" /\ umcReported[um] # "failed"
                         THEN [umcBreaks EXCEPT !.failedBy = @ \cup {"registration"}]
                         ELSE umcBreaks
    /\ UNCHANGED <<umcRest, umState, umVersion, umCommand, umFails, umcRunning,
                   umcPhase, umcStored, umcError, umcResult, umcSent>>

\* Close of the controller during the update: the connections are closed
\* and UpdateComponents returns without error
ControllerClose ==
    /\ umcRunning
    /\ UpdateRuns
    /\ umcBreaks.restarts < MaxControllerRestarts
    /\ umcRunning' = FALSE
    /\ umConnected' = [um \in UMIDs |-> FALSE]
    /\ umCommand' = [um \in UMIDs |-> "none"]
    /\ \E done \in SUBSET {um \in UMIDs : umCommand[um] # "none"} :
         /\ umState' = [um \in UMIDs |->
                           IF um \in done
                           THEN UMAnswer(um, umCommand[um], umState[um], umVersion[um],
                                         umFails[um]).state
                           ELSE umState[um]]
         /\ umVersion' = [um \in UMIDs |->
                             IF um \in done
                             THEN UMAnswer(um, umCommand[um], umState[um], umVersion[um],
                                           umFails[um]).version
                             ELSE umVersion[um]]
    /\ umcResult' = IF umcResult = "none" THEN "closed" ELSE umcResult
    /\ umcBreaks' = [umcBreaks EXCEPT !.restarts = @ + 1]
    /\ UNCHANGED <<umcRest, umFails, umcPhase, umcStored, umcReported, umcError, umcSent>>

\* New: the controller is created again on its storage
ControllerNew ==
    /\ ~umcRunning
    /\ umcRunning' = TRUE
    /\ umcPhase' = Restored(umcStored)
    /\ umcError' = ""
    /\ UNCHANGED <<umcRest, umState, umVersion, umConnected, umCommand, umFails,
                   umcStored, umcReported, umcResult, umcSent, umcBreaks>>

NextUmc ==
    \/ UpdateComponents
    \/ SendRequest
    \/ BeginRevert
    \/ NextPhase
    \/ UMHandle
    \/ UMDisconnect
    \/ UMConnect
    \/ ControllerClose
    \/ ControllerNew

(***************************************************************************)
(* The downloader: DownloadAndDecrypt, addToQueue and handleWaitQueue.     *)
(* All of them run under the lock of the downloader, so each call is one   *)
(* step.  The space allocator and the transfer are outside the module:     *)
(* whether tryAllocateSpace finds space and how process ends are inputs.   *)
(***************************************************************************)
\* config.Downloader.MaxConcurrentDownloads
MaxConcurrentDownloads == 2

\* the identifiers (encoded Sha256) of the packages that are requested
MaxDownloads == 3

DownloadIDs == 1..MaxDownloads

\* the results of tryAllocateSpace in a step: the requests among ids that
\* space is found for
AllocationResults(ids) == SUBSET ids

\* what process returns: nil, an error of the transfer or of the
\* decryption, or the error of a transfer whose context is done
ProcessResults == {"", "process error", "process canceled"}

QueueIdle ==
    /\ currentDownloads = {}
    /\ waitQueue = <<>>
    /\ ctxDone = {}
    /\ statusChannels = [id \in DownloadIDs |-> <<>>]
    /\ requested = {}
    /\ accepted = {}

\* a downloader that never finds the number of current downloads too high
ExceedsMaxNever(count) == FALSE

\* the test of addToQueue for the number of current downloads
ExceedsMax(count) == count >= MaxConcurrentDownloads

isResultInQueue(q, id) == id \in q.current \/ id \in Range(q.queue)

\* q holds the current downloads, the wait queue and the status channels;
\* the result is q after the call and the error returned
addToQueue(q, id, valid, allocated) ==
    IF ~valid THEN [q |-> q, err |-> "no download info"]
    ELSE IF isResultInQueue(q, id)
         THEN [q |-> q, err |-> "download ID is being already processed"]
    ELSE IF ExceedsMax(Cardinality(q.current))
         THEN [q |-> [q EXCEPT !.queue = Append(@, id)], err |-> ""]
    ELSE IF id \notin allocated
         THEN IF q.current = {}
              THEN [q |-> q, err |-> "not enough space"]
              ELSE [q |-> [q EXCEPT !.queue = Append(@, id)], err |-> ""]
    ELSE [q |-> [q EXCEPT !.current = @ \cup {id}], err |-> ""]

\* a wait queue whose requests that are not added again get no status
sendQueueErrorNowhere(q, id, err) == q

\* result.statusChannel <- err of handleWaitQueue
sendQueueError(q, id, err) == [q EXCEPT !.status[id] = Append(@, err)]

\* the body of the loop of handleWaitQueue for the first element
takeFromWaitQueue(q, done, allocated) ==
    LET id == Head(q.queue)
        removed == [q EXCEPT !.queue = Tail(@)]
        added == addToQueue(removed, id, TRUE, allocated)
    IN IF id \in done THEN sendQueueError(removed, id, "context canceled")
       ELSE IF added.err # "" THEN sendQueueError(added.q, id, added.err)
       ELSE added.q

RECURSIVE handleWaitQueueFrom(_, _, _, _, _)
handleWaitQueueFrom(q, i, numIter, done, allocated) ==
    IF i >= numIter \/ q.queue = <<>> THEN q
    ELSE LET id == Head(q.queue)
             taken == takeFromWaitQueue(q, done, allocated)
         IN IF taken.status[id] = q.status[id] /\ ExceedsMax(Cardinality(taken.current))
            THEN taken
            ELSE handleWaitQueueFrom(taken, i + 1, numIter, done, allocated)

handleWaitQueue(q, done, allocated) ==
    handleWaitQueueFrom(q, 0, Len(q.queue), done, allocated)

\* the downloader's state as the record the operators work on
Downloads == [current |-> currentDownloads, queue |-> waitQueue, status |-> statusChannels]

\* DownloadAndDecrypt is called for a package that was not requested before
\* or is still in the queue: valid tells whether it has URLs, decryption
\* info and signs
DownloadAndDecrypt ==
    \E id \in DownloadIDs, valid \in BOOLEAN :
      \E allocated \in AllocationResults({id}) :
        LET added == addToQueue(Downloads, id, valid, allocated)
        IN /\ id \notin requested \/ isResultInQueue(Downloads, id)
           /\ requested' = requested \cup {id}
           /\ accepted' = IF added.err = "" THEN accepted \cup {id} ELSE accepted
           /\ currentDownloads' = added.q.current
           /\ waitQueue' = added.q.queue
           /\ UNCHANGED <<ctxDone, statusChannels, queueRest>>

\* the caller cancels the context of a request it still waits for
CancelRequest ==
    \E id \in accepted \ ctxDone :
        /\ statusChannels[id] = <<>>
        /\ ctxDone' = ctxDone \cup {id}
        /\ UNCHANGED <<currentDownloads, waitQueue, statusChannels, requested, accepted,
                       queueRest>>

\* process has returned for a download: the rest of the goroutine that
\* addToQueue started
FinishDownload(id) ==
    /\ id \in currentDownloads
    /\ \E processErr \in ProcessResults, allocated \in AllocationResults(Range(waitQueue)) :
          LET deleted == [Downloads EXCEPT !.current = @ \ {id},
                                           !.status[id] = Append(@, processErr)]
              handled == handleWaitQueue(deleted, ctxDone, allocated)
          IN /\ (processErr = "process canceled" => id \in ctxDone)
             /\ currentDownloads' = handled.current
             /\ waitQueue' = handled.queue
             /\ statusChannels' = handled.status
    /\ UNCHANGED <<ctxDone, requested, accepted, queueRest>>

FinishSomeDownload == \E id \in DownloadIDs : FinishDownload(id)

NextQueue ==
    \/ DownloadAndDecrypt
    \/ CancelRequest
    \/ FinishSomeDownload

(***************************************************************************)
(* The launcher's lock and run status channel: the API calls, the          *)
(* goroutine processChannels and the function of the connection timer, as  *)
(* far as they lock, unlock, send and block.  Whether a node status is the *)
(* last one waited for is an input.                                        *)
(***************************************************************************)
\* the capacity of runStatusChannel
runStatusChannelSize == 10

\* what processChannels receives
Received == {"status", "alert"}

ChannelIdle ==
    /\ launcherLock = "free"
    /\ goroutines = [api |-> "idle", chan |-> "idle", timer |-> "idle", received |-> "status"]
    /\ runStatusChannel = 0
    /\ reading = TRUE

\* launcher.runStatusChannel <- runStatusToSend returns only when the
\* channel has room
ChannelHasRoom(queued) == queued < runStatusChannelSize

\* RunInstances or RestartInstances is called
ApiCall ==
    /\ goroutines.api = "idle"
    /\ goroutines' = [goroutines EXCEPT !.api = "Lock"]
    /\ UNCHANGED <<launcherLock, runStatusChannel, reading, channelRest>>

ApiLock ==
    /\ goroutines.api = "Lock"
    /\ launcherLock = "free"
    /\ launcherLock' = "api"
    /\ goroutines' = [goroutines EXCEPT !.api = "locked"]
    /\ UNCHANGED <<runStatusChannel, reading, channelRest>>

\* the placement, sendRunInstances and the deferred Unlock
ApiReturn ==
    /\ goroutines.api = "locked"
    /\ launcherLock' = "free"
    /\ goroutines' = [goroutines EXCEPT !.api = "idle"]
    /\ UNCHANGED <<runStatusChannel, reading, channelRest>>

\* processChannels receives a node status or an alert
ChannelsReceive ==
    /\ goroutines.chan = "idle"
    /\ \E received \in Received :
          goroutines' = [goroutines EXCEPT !.chan = "Lock", !.received = received]
    /\ UNCHANGED <<launcherLock, runStatusChannel, reading, channelRest>>

ChannelsLock ==
    /\ goroutines.chan = "Lock"
    /\ launcherLock = "free"
    /\ launcherLock' = "chan"
    /\ goroutines' = [goroutines EXCEPT !.chan = "locked"]
    /\ UNCHANGED <<runStatusChannel, reading, channelRest>>

\* performRebalancing, or processRunInstanceStatus up to its return or to
\* the send of sendCurrentStatus
ChannelsHandle ==
    /\ goroutines.chan = "locked"
    /\ \E allReceived \in BOOLEAN :
          IF goroutines.received = "status" /\ allReceived
          THEN /\ goroutines' = [goroutines EXCEPT !.chan = "send"]
               /\ UNCHANGED launcherLock
          ELSE /\ goroutines' = [goroutines EXCEPT !.chan = "idle"]
               /\ launcherLock' = "free"
    /\ UNCHANGED <<runStatusChannel, reading, channelRest>>

\* the send of sendCurrentStatus in processRunInstanceStatus, and the
\* deferred Unlock
ChannelsSend ==
    /\ goroutines.chan = "send"
    /\ ChannelHasRoom(runStatusChannel)
    /\ runStatusChannel' = runStatusChannel + 1
    /\ goroutines' = [goroutines EXCEPT !.chan = "idle"]
    /\ launcherLock' = "free"
    /\ UNCHANGED <<reading, channelRest>>

\* the connection timer expires: sendCurrentStatus starts without the lock
ConnectionTimerFires ==
    /\ goroutines.timer = "idle"
    /\ goroutines' = [goroutines EXCEPT !.timer = "send"]
    /\ UNCHANGED <<launcherLock, runStatusChannel, reading, channelRest>>

ConnectionTimerSend ==
    /\ goroutines.timer = "send"
    /\ ChannelHasRoom(runStatusChannel)
    /\ runStatusChannel' = runStatusChannel + 1
    /\ goroutines' = [goroutines EXCEPT !.timer = "idle"]
    /\ UNCHANGED <<launcherLock, reading, channelRest>>

\* the unit status handler takes a run status from the channel
ReadRunStatus ==
    /\ reading
    /\ runStatusChannel > 0
    /\ runStatusChannel' = runStatusChannel - 1
    /\ UNCHANGED <<launcherLock, goroutines, reading, channelRest>>

NextChannel ==
    \/ ApiCall
    \/ ApiLock
    \/ ApiReturn
    \/ ChannelsReceive
    \/ ChannelsLock
    \/ ChannelsHandle
    \/ ChannelsSend
    \/ ConnectionTimerFires
    \/ ConnectionTimerSend
    \/ ReadRunStatus

\* the components added last are idle
MoreIdle == UmcIdle /\ QueueIdle /\ ChannelIdle

\* the components modelled on their own are idle
RestIdle == SynchronizerIdle /\ TimetableIdle /\ SenderIdle /\ MoreIdle

NewPass(kind, id) ==
    [kind |-> kind, id |-> id, emittedBy |-> {},
     handled |-> [n \in AllNodeIDs |-> {}],
     alertNode |-> "", movedTo |-> ""]

NoStatus == [path |-> "none", ErrorServices |-> <<>>, cleaned |-> <<>>]

\* the state New leaves: no node connected, nothing stored, the connection
\* timer started with sendCurrentStatus as its function
InitWith(configuredNodeIDs, unitConfigs) ==
    /\ NodeIDs = configuredNodeIDs
    /\ unitConfig \in unitConfigs
    /\ mutex = "free"
    /\ pcApi = "idle"
    /\ pcChan = "idle"
    /\ pcTimer = "idle"
    /\ timerBinding \in {"bound", "detached"}
    /\ timerArmed = TRUE
    /\ timerCallbacks = 0
    /\ collected = <<>>
    /\ collectedPass = 0
    /\ nodes = <<>>
    /\ currentDesiredInstances = <<>>
    /\ currentRunStatus = <<>>
    /\ currentErrorStatus = <<>>
    /\ pendingNewServices = <<>>
    /\ storage = <<>>
    /\ uidPool = {}
    /\ network = <<>>
    /\ smRequests = [n \in AllNodeIDs |-> <<>>]
    /\ lastStatus = NoStatus
    /\ pass = NewPass("connect", 0)
    /\ passes = 0

Init == InitWith(NodeIDsPair, UnitConfigs) /\ DownloadIdle /\ ManagerIdle /\ RestIdle

InitS5 == InitWith(NodeIDsS5, {UnitConfigS5}) /\ DownloadIdle /\ ManagerIdle /\ RestIdle

\* download is called while the launcher is idle
InitDownload ==
    /\ InitWith(NodeIDsPair, {UnitConfigS5})
    /\ timerBinding = "bound"
    /\ DownloadCalled
    /\ ManagerIdle
    /\ RestIdle

SpecDownload == InitDownload /\ [][NextDownload]_vars

\* a manager is created while the launcher and the downloader are idle
InitUpdate ==
    /\ InitWith(NodeIDsPair, {UnitConfigS5})
    /\ timerBinding = "bound"
    /\ DownloadIdle
    /\ ManagerCreated
    /\ RestIdle

SpecUpdate == InitUpdate /\ [][NextUpdate]_vars

\* the managers with the clock of the schedule running: time passes while
\* the manager waits, and the timer of the TTL fires when the TTL has passed
FairSpecUpdate == SpecUpdate /\ WF_vars(tick) /\ WF_vars(updateTimeout)

\* the update synchronizer on its own
InitSync ==
    /\ InitWith(NodeIDsPair, {UnitConfigS5})
    /\ timerBinding = "bound"
    /\ DownloadIdle
    /\ ManagerIdle
    /\ RestIdle

SpecSync == InitSync /\ [][NextSync]_vars

\* getAvailableTimetableTime on every instant and every timetable
InitTimetable ==
    /\ InitWith(NodeIDsPair, {UnitConfigS5})
    /\ timerBinding = "bound"
    /\ DownloadIdle
    /\ ManagerIdle
    /\ SynchronizerIdle
    /\ SenderIdle
    /\ MoreIdle
    /\ fromDate \in Instants
    /\ timetable \in Timetables
    /\ availableTime = NotComputed

SpecTimetable == InitTimetable /\ [][NextTimetable]_vars

\* the AMQP handler on its own
InitSender ==
    /\ InitWith(NodeIDsPair, {UnitConfigS5})
    /\ timerBinding = "bound"
    /\ DownloadIdle
    /\ ManagerIdle
    /\ RestIdle

SpecSender == InitSender /\ [][NextSender]_vars

\* the update manager controller with update managers that fail or not
InitUmc ==
    /\ InitWith(NodeIDsPair, {UnitConfigS5})
    /\ timerBinding = "bound"
    /\ DownloadIdle
    /\ ManagerIdle
    /\ SynchronizerIdle
    /\ TimetableIdle
    /\ SenderIdle
    /\ QueueIdle
    /\ ChannelIdle
    /\ umFails \in UMFailures
    /\ umState = [um \in UMIDs |-> "idle"]
    /\ umVersion = [um \in UMIDs |-> 1]
    /\ umConnected = [um \in UMIDs |-> TRUE]
    /\ umCommand = [um \in UMIDs |-> "none"]
    /\ umcRunning = TRUE
    /\ umcPhase = UmcIdleState
    /\ umcStored = UmcIdleState
    /\ umcReported = [um \in UMIDs |-> "idle"]
    /\ umcError = ""
    /\ umcResult = "none"
    /\ umcSent = <<>>
    /\ umcBreaks = [disconnects |-> 0, restarts |-> 0, failedBy |-> {}]

SpecUmc == InitUmc /\ [][NextUmc]_vars

\* the downloader on its own
InitQueue ==
    /\ InitWith(NodeIDsPair, {UnitConfigS5})
    /\ timerBinding = "bound"
    /\ DownloadIdle
    /\ ManagerIdle
    /\ RestIdle

SpecQueue == InitQueue /\ [][NextQueue]_vars

\* every download that runs terminates
FairSpecQueue == SpecQueue /\ \A id \in DownloadIDs : WF_vars(FinishDownload(id))

\* the goroutines of the launcher with a unit status handler that reads the
\* run status channel or does not
InitChannel ==
    /\ InitWith(NodeIDsPair, {UnitConfigS5})
    /\ timerBinding = "bound"
    /\ DownloadIdle
    /\ ManagerIdle
    /\ SynchronizerIdle
    /\ TimetableIdle
    /\ SenderIdle
    /\ UmcIdle
    /\ QueueIdle
    /\ launcherLock = "free"
    /\ goroutines = [api |-> "idle", chan |-> "idle", timer |-> "idle", received |-> "status"]
    /\ runStatusChannel = 0
    /\ reading \in BOOLEAN

SpecChannel == InitChannel /\ [][NextChannel]_vars

\* every goroutine that can go on goes on, a goroutine that waits for the
\* mutex gets it when it is free again and again, a goroutine that waits
\* at the send sends when the channel has room again and again, and a
\* reader reads
FairSpecChannel ==
    /\ SpecChannel
    /\ SF_vars(ApiLock) /\ SF_vars(ChannelsLock)
    /\ SF_vars(ChannelsSend) /\ SF_vars(ConnectionTimerSend)
    /\ WF_vars(ApiReturn) /\ WF_vars(ChannelsHandle) /\ WF_vars(ReadRunStatus)

(***************************************************************************)
(* The mutex and the connection timer.                                     *)
(***************************************************************************)
\* resourceManager.GetUnitConfiguration
GetUnitConfiguration(nodeType) == unitConfig[nodeType]

\* a Lock that returns whoever holds the mutex
CanLockAlways(holder) == TRUE

\* launcher.Lock() returns only when nobody holds the mutex
CanLock(holder) == mutex = "free"

\* launcher.connectionTimer holds a copy of the time.Timer that AfterFunc
\* returned, so Reset and Stop are given the copy: timerBinding tells
\* whether they reach the timer that is counting down
TimerReset(armed) == IF timerBinding = "bound" THEN TRUE ELSE armed

TimerStop(armed) == IF timerBinding = "bound" THEN FALSE ELSE armed

\* sendRunInstances: every node waits for its status and is sent its request
sendRunInstances(nodeList) ==
    [n \in 1..Len(nodeList) |-> [nodeList[n] EXCEPT !.waitStatus = TRUE]]

SentRequests(nodeList) ==
    [id \in AllNodeIDs |->
        IF getNode(nodeList, id) = 0 THEN smRequests[id]
        ELSE Append(smRequests[id],
                    nodeList[getNode(nodeList, id)].currentRunRequest.instances)]

\* a pass is started only while every service manager has room for a request
CanStartPass ==
    /\ passes < MaxPasses
    /\ \A id \in AllNodeIDs : Len(smRequests[id]) < MaxOutstanding

\* the send on runStatusChannel and the assignments that follow it;
\* passBase is the pass the status is accounted to, if attributed
SendRunStatus(instances, path, passBase, attributed) ==
    LET message == RunStatusToSend(instances, pendingNewServices, currentRunStatus,
                                   currentErrorStatus)
    IN /\ lastStatus' = [path |-> path,
                         ErrorServices |-> message.ErrorServices,
                         cleaned |-> message.cleaned]
       /\ pendingNewServices' = <<>>
       /\ currentRunStatus' = message.Instances
       /\ currentErrorStatus' = <<>>
       /\ pass' = IF attributed
                  THEN [passBase EXCEPT !.emittedBy = @ \cup {path}]
                  ELSE passBase

(***************************************************************************)
(* RunInstances and RestartInstances (the API caller).                     *)
(***************************************************************************)
RunInstancesLock ==
    /\ pcApi = "idle"
    /\ CanStartPass
    /\ CanLock("api")
    /\ mutex' = "api"
    /\ pcApi' = "RunInstances"
    /\ passes' = passes + 1
    /\ UNCHANGED <<otherVars, pcChan, NodeIDs, timerBinding, timerArmed, launcherVars, timerVars,
                   unitConfig, smRequests, lastStatus, pass>>

RunInstancesWith(desiredChoices, setupFailureChoices) ==
    /\ pcApi = "RunInstances"
    /\ \E instances \in desiredChoices, setupFailures \in setupFailureChoices :
         LET sorted == SortDesired(instances)
             newServices == NewServices(instances)
             balanced == performNodeBalancing(resetDeviceAllocation(nodes), storage,
                                              uidPool, network, sorted,
                                              setupFailures)
         IN /\ timerArmed' = TimerReset(timerArmed)
            /\ currentDesiredInstances' = sorted
            /\ pendingNewServices' = newServices
            /\ currentErrorStatus' = balanced.errStatus
            /\ storage' = balanced.storage
            /\ uidPool' = balanced.uidPool
            /\ network' = balanced.network
            /\ nodes' = sendRunInstances(balanced.nodes)
            /\ smRequests' = SentRequests(balanced.nodes)
            /\ pass' = NewPass("RunInstances", passes)
    /\ mutex' = "free"
    /\ pcApi' = "idle"
    /\ UNCHANGED <<otherVars, pcChan, NodeIDs, timerBinding, timerVars, currentRunStatus, unitConfig,
                   lastStatus, passes>>

RestartInstancesLock ==
    /\ pcApi \in {"idle", "unitConfigUpdated"}
    /\ CanStartPass
    /\ CanLock("api")
    /\ mutex' = "api"
    /\ pcApi' = "RestartInstances"
    /\ passes' = passes + 1
    /\ UNCHANGED <<otherVars, pcChan, NodeIDs, timerBinding, timerArmed, launcherVars, timerVars,
                   unitConfig, smRequests, lastStatus, pass>>

RestartInstances ==
    /\ pcApi = "RestartInstances"
    /\ \E setupFailures \in SetupFailureChoices :
         LET configured == [n \in 1..Len(nodes) |->
                               initNodeUnitConfiguration(nodes[n],
                                   GetUnitConfiguration(nodes[n].NodeType))]
             balanced == performNodeBalancing(configured, storage, uidPool, network,
                                              currentDesiredInstances, setupFailures)
         IN /\ timerArmed' = TimerReset(timerArmed)
            /\ currentErrorStatus' = balanced.errStatus
            /\ storage' = balanced.storage
            /\ uidPool' = balanced.uidPool
            /\ network' = balanced.network
            /\ nodes' = sendRunInstances(balanced.nodes)
            /\ smRequests' = SentRequests(balanced.nodes)
            /\ pass' = NewPass("RestartInstances", passes)
    /\ mutex' = "free"
    /\ pcApi' = "idle"
    /\ UNCHANGED <<otherVars, pcChan, NodeIDs, timerBinding, timerVars, currentDesiredInstances,
                   currentRunStatus, pendingNewServices, unitConfig,
                   lastStatus, passes>>

RunInstances == RunInstancesWith(DesiredChoices, SetupFailureChoices)

\* RunInstances as TestBalancingByUnitConfiguration calls it
RunInstancesS5 == RunInstancesWith({DesiredS5}, {{}})

\* desired instances lists with services of different priorities that
\* require the same devices, with a service the image provider does not
\* know and with a service that is cached
DesiredPriorities ==
    {<<Desired("serv2", 90, 3), Desired("serv1", 100, 1)>>,
     <<Desired("serv4", 50, 3), Desired("serv2", 50, 2), Desired("serv3", 100, 1)>>,
     <<Desired("serv2", 100, 1), Desired("serviceNotExist", 100, 3)>>,
     <<Desired("servCached", 100, 2), Desired("serv1", 100, 1)>>,
     <<Desired("serviceNotExist", 50, 1), Desired("servCached", 50, 1)>>}

\* RunInstances with these lists
RunInstancesPriorities == RunInstancesWith(DesiredPriorities, {{}})

(***************************************************************************)
(* processChannels: run statuses of the nodes and system quota alerts.     *)
(***************************************************************************)
\* a service manager answers its oldest run request: every instance runs
RunReply(nodeID) ==
    LET runRequest == Head(smRequests[nodeID])
    IN [i \in 1..Len(runRequest) |->
           [InstanceIdent |-> runRequest[i].InstanceIdent, NodeID |-> nodeID,
            RunState |-> InstanceStateActive, ErrorInfo |-> ""]]

Connected(nodeID) == getNode(nodes, nodeID) # 0

\* the service managers connect before the first pass, or never
CanRegister(nodeID) == ~Connected(nodeID) /\ passes = 0

StatusAvailable ==
    \E id \in NodeIDs : CanRegister(id) \/ smRequests[id] # <<>>

ProcessRunInstanceStatusLock ==
    /\ pcChan = "idle"
    /\ StatusAvailable
    /\ CanLock("chan")
    /\ mutex' = "chan"
    /\ pcChan' = "processRunInstanceStatus"
    /\ UNCHANGED <<otherVars, pcApi, NodeIDs, timerBinding, timerArmed, launcherVars, timerVars,
                   unitConfig, smRequests, lastStatus, pass, passes>>

\* the handler for the status instances of node nodeID
HandleRunStatus(nodeID, instances) ==
    LET known == getNode(nodes, nodeID)
        added == IF known # 0 THEN nodes
                 ELSE SortNodes(
                          Append(nodes, initNodeStatus(nodeID,
                              GetUnitConfiguration(GetNodeConfiguration(nodeID).NodeType))),
                          TRUE)
        current == getNode(added, nodeID)
        updated == [added EXCEPT ![current].receivedRunInstances = instances,
                                 ![current].waitStatus = FALSE]
        handled == [pass EXCEPT !.handled[nodeID] = @ \cup {"reply"}]
        allReplied == /\ Len(updated) = Cardinality(NodeIDs)
                      /\ \A n \in 1..Len(updated) : ~updated[n].waitStatus
        status == CollectRunStatus(updated)
    IN IF allReplied
       THEN /\ timerArmed' = TimerStop(timerArmed)
            /\ nodes' = status.nodes
            /\ SendRunStatus(status.instances, "replies", handled, TRUE)
            /\ UNCHANGED <<currentDesiredInstances, storage, uidPool, network>>
       ELSE /\ nodes' = updated
            /\ pass' = handled
            /\ UNCHANGED <<timerArmed, currentDesiredInstances, currentRunStatus,
                           currentErrorStatus, pendingNewServices, storage, uidPool, network,
                           lastStatus>>

ProcessRunInstanceStatus ==
    /\ pcChan = "processRunInstanceStatus"
    /\ \E id \in NodeIDs :
         \/ /\ CanRegister(id)
            /\ \E report \in RegistrationReports(id) : HandleRunStatus(id, report)
            /\ UNCHANGED smRequests
         \/ /\ Connected(id)
            /\ smRequests[id] # <<>>
            /\ HandleRunStatus(id, RunReply(id))
            /\ smRequests' = [smRequests EXCEPT ![id] = Tail(@)]
    /\ mutex' = "free"
    /\ pcChan' = "idle"
    /\ UNCHANGED <<otherVars, pcApi, NodeIDs, timerBinding, timerVars, unitConfig, passes>>

\* the values the free CPU or RAM of a node takes
FreeResourceChoices == [AllNodeIDs -> {1, 2}]

PerformRebalancingLock ==
    /\ pcChan = "idle"
    /\ CanStartPass
    /\ CanLock("chan")
    /\ mutex' = "chan"
    /\ pcChan' = "performRebalancing"
    /\ passes' = passes + 1
    /\ UNCHANGED <<otherVars, pcApi, NodeIDs, timerBinding, timerArmed, launcherVars, timerVars,
                   unitConfig, smRequests, lastStatus, pass>>

\* what performRebalancing computes for the alert of node nodeID; free is the
\* free amount of the alert's parameter on every node
Rebalancing(nodeList, store, pool, net, errStatus, desiredInstances, nodeID, free, setupFailures) ==
    LET known == getNode(nodeList, nodeID)
        candidates == RebalancingNodes(nodeList, known)
        sorted == SortNodes(nodeList, FALSE)
        unchanged == [nodes |-> nodeList, storage |-> store, uidPool |-> pool,
                      network |-> net, errStatus |-> errStatus, moved |-> FALSE,
                      target |-> 0]
        Outcome(balanced, moveResult) ==
            [nodes |-> moveResult.nodes, storage |-> balanced.storage,
             uidPool |-> balanced.uidPool, network |-> balanced.network,
             errStatus |-> balanced.errStatus, moved |-> moveResult.moved,
             target |-> moveResult.target]
        MoveFrom(balanced, nodeWithIssue) ==
            Outcome(balanced,
                    RebalanceFrom(balanced.nodes, desiredInstances, nodeWithIssue,
                        Len(balanced.nodes[nodeWithIssue].currentRunRequest.instances),
                        free))
        Move(balanced) == MoveFrom(balanced, getNode(balanced.nodes, nodeID))
    IN IF known = 0 THEN unchanged
       ELSE IF candidates = <<>> THEN [unchanged EXCEPT !.nodes = sorted]
       ELSE Move(performNodeBalancing(resetDeviceAllocation(sorted), store, pool,
                                      net, desiredInstances, setupFailures))

\* the handler for the alert of node nodeID
HandleAlert(nodeID, free, setupFailures) ==
    LET Handle(rebalanced) ==
            /\ currentErrorStatus' = rebalanced.errStatus
            /\ storage' = rebalanced.storage
            /\ uidPool' = rebalanced.uidPool
            /\ network' = rebalanced.network
            /\ IF rebalanced.moved
               THEN /\ timerArmed' = TimerReset(timerArmed)
                    /\ nodes' = sendRunInstances(rebalanced.nodes)
                    /\ smRequests' = SentRequests(rebalanced.nodes)
                    /\ pass' = [NewPass("performRebalancing", passes) EXCEPT
                                    !.alertNode = nodeID,
                                    !.movedTo = rebalanced.nodes[rebalanced.target].NodeID]
               ELSE /\ nodes' = rebalanced.nodes
                    /\ UNCHANGED <<timerArmed, smRequests, pass>>
    IN Handle(Rebalancing(nodes, storage, uidPool, network, currentErrorStatus,
                          currentDesiredInstances, nodeID, free, setupFailures))

PerformRebalancing ==
    /\ pcChan = "performRebalancing"
    /\ \E nodeID \in NodeIDs, free \in FreeResourceChoices,
          setupFailures \in SetupFailureChoices :
         HandleAlert(nodeID, free, setupFailures)
    /\ mutex' = "free"
    /\ pcChan' = "idle"
    /\ UNCHANGED <<otherVars, pcApi, NodeIDs, timerBinding, timerVars, currentDesiredInstances,
                   currentRunStatus, pendingNewServices, unitConfig,
                   lastStatus, passes>>

(***************************************************************************)
(* The connection timer: its expiry starts sendCurrentStatus in a          *)
(* goroutine of its own, which does not take the lock.                     *)
(***************************************************************************)
TimerExpire ==
    /\ timerArmed
    /\ timerCallbacks < MaxPendingCallbacks
    /\ timerArmed' = FALSE
    /\ timerCallbacks' = timerCallbacks + 1
    /\ UNCHANGED <<otherVars, mutex, pcApi, pcChan, pcTimer, NodeIDs, timerBinding, collected,
                   collectedPass, launcherVars, unitConfig, smRequests,
                   lastStatus, pass, passes>>

\* sendCurrentStatus of the timer, the loop over the nodes
TimerCollect ==
    /\ pcTimer = "idle"
    /\ timerCallbacks > 0
    /\ LET status == CollectRunStatus(nodes)
           waiting == {nodes[n].NodeID : n \in {m \in 1..Len(nodes) : nodes[m].waitStatus}}
       IN /\ nodes' = status.nodes
          /\ collected' = status.instances
          /\ pass' = [pass EXCEPT !.handled =
                         [id \in AllNodeIDs |->
                             IF id \in waiting THEN @[id] \cup {"timer"} ELSE @[id]]]
    /\ collectedPass' = pass.id
    /\ timerCallbacks' = timerCallbacks - 1
    /\ pcTimer' = "collected"
    /\ UNCHANGED <<otherVars, mutex, pcApi, pcChan, NodeIDs, timerBinding, timerArmed,
                   currentDesiredInstances, currentRunStatus, currentErrorStatus,
                   pendingNewServices, storage, uidPool, network, unitConfig, smRequests,
                   lastStatus, passes>>

\* sendCurrentStatus of the timer, from the error instances to the end
TimerSend ==
    /\ pcTimer = "collected"
    /\ SendRunStatus(collected, "timer", pass, collectedPass = pass.id)
    /\ collected' = <<>>
    /\ pcTimer' = "idle"
    /\ UNCHANGED <<otherVars, mutex, pcApi, pcChan, NodeIDs, timerBinding, timerArmed, timerCallbacks,
                   collectedPass, nodes, currentDesiredInstances, storage, uidPool, network,
                   unitConfig, smRequests, passes>>

(***************************************************************************)
(* Environment: the update of the unit configuration.                      *)
(***************************************************************************)
\* a new unit configuration is installed; its installer then calls
\* RestartInstances
UpdateUnitConfig ==
    /\ pcApi = "idle"
    /\ CanStartPass
    /\ \E config \in UnitConfigs \ {unitConfig} : unitConfig' = config
    /\ pcApi' = "unitConfigUpdated"
    /\ UNCHANGED <<otherVars, mutex, pcChan, NodeIDs, timerBinding, timerArmed, launcherVars,
                   timerVars, smRequests, lastStatus, pass, passes>>

Next ==
    \/ RunInstancesLock
    \/ RunInstances
    \/ RestartInstancesLock
    \/ RestartInstances
    \/ ProcessRunInstanceStatusLock
    \/ ProcessRunInstanceStatus
    \/ PerformRebalancingLock
    \/ PerformRebalancing
    \/ TimerExpire
    \/ TimerCollect
    \/ TimerSend
    \/ UpdateUnitConfig

Spec == Init /\ [][Next]_vars

(***************************************************************************)
(* The scheduled instances and their devices.                              *)
(***************************************************************************)
\* the instances of node n's current run request
Scheduled(n) == nodes[n].currentRunRequest.instances

\* the devices the service of an instance requires
RequiredDevices(instance) == GetServiceInfo(instance.InstanceIdent.ServiceID).Devices

\* a pass (RunInstances, RestartInstances or a rebalancing) has run
PassDone == pass.kind # "connect"

(***************************************************************************)
(* C1: after every RunInstances, RestartInstances and rebalancing pass,    *)
(* every device of every node has 0 <= allocatedCount <= sharedCount.      *)
(***************************************************************************)
C1_DevicesWithinSharedCount ==
    \A n \in 1..Len(nodes) :
        \A i \in 1..Len(nodes[n].availableDevices) :
            /\ 0 <= nodes[n].availableDevices[i].allocatedCount
            /\ nodes[n].availableDevices[i].allocatedCount
                   <= nodes[n].availableDevices[i].sharedCount

\* a pass has left a device fully allocated after an instance that requires
\* it twice was refused its second allocation
C1_Witness ==
    /\ PassDone
    /\ \E n \in 1..Len(nodes) :
         \E i \in 1..Len(nodes[n].availableDevices) :
            /\ nodes[n].availableDevices[i].sharedCount = 1
            /\ nodes[n].availableDevices[i].allocatedCount = 1
            /\ nodes[n].availableDevices[i].name = "devTest"
    /\ \E e \in 1..Len(currentErrorStatus) :
         currentErrorStatus[e].InstanceIdent.ServiceID = "serv3"

\* the places (node, position) at which ident is in a run request of nodeList
PlacesIn(nodeList, ident) ==
    {<<n, i>> \in (1..Len(nodeList)) \X (1..3) :
        /\ i <= Len(nodeList[n].currentRunRequest.instances)
        /\ nodeList[n].currentRunRequest.instances[i].InstanceIdent = ident}

Places(ident) == PlacesIn(nodes, ident)

ScheduledOn(ident, nodeID) ==
    \E p \in Places(ident) : nodes[p[1]].NodeID = nodeID

\* every configured node is registered and none is waited for
AllReplied ==
    /\ Len(nodes) = Cardinality(NodeIDs)
    /\ \A n \in 1..Len(nodes) : ~nodes[n].waitStatus

\* the step of processRunInstanceStatus that sends the run status
EmitsByReplies ==
    /\ pcChan = "processRunInstanceStatus"
    /\ pcChan' = "idle"
    /\ AllReplied'

\* the step of the timer's sendCurrentStatus that sends the run status
EmitsByTimer == pcTimer = "collected" /\ pcTimer' = "idle"

(***************************************************************************)
(* C2: whenever a run status is sent, every instance it reports active is  *)
(* in exactly one node's current run request, at exactly one position.     *)
(***************************************************************************)
C2_ActiveInOneRunRequest ==
    [][(EmitsByReplies \/ EmitsByTimer) =>
          \A e \in 1..Len(currentRunStatus') :
              currentRunStatus'[e].RunState = InstanceStateActive =>
                  Cardinality(PlacesIn(nodes', currentRunStatus'[e].InstanceIdent)) = 1]_vars

(***************************************************************************)
(* C3: two scheduled instances of different InstanceIdent never carry the  *)
(* same UID, and an InstanceIdent that is scheduled before and after a     *)
(* step carries the same UID after it.                                     *)
(***************************************************************************)
ScheduledInstances == UNION {Range(Scheduled(n)) : n \in 1..Len(nodes)}

C3_DistinctUIDs ==
    \A a, b \in ScheduledInstances :
        a.InstanceIdent # b.InstanceIdent => a.UID # b.UID

C3_UniqueStableUIDs ==
    [][/\ C3_DistinctUIDs'
       /\ \A a \in ScheduledInstances, b \in ScheduledInstances' :
              a.InstanceIdent = b.InstanceIdent => a.UID = b.UID]_vars

(***************************************************************************)
(* C4: no instance is in the run request of a node on which a device its   *)
(* service requires has sharedCount = 0.                                   *)
(***************************************************************************)
HasUnsharedDevice(node, name) ==
    \E i \in 1..Len(node.availableDevices) :
        /\ node.availableDevices[i].name = name
        /\ node.availableDevices[i].sharedCount = 0

C4_NeverOnUnsharedDevice ==
    \A n \in 1..Len(nodes) :
        \A instance \in Range(Scheduled(n)) :
            \A d \in Range(RequiredDevices(instance)) :
                ~HasUnsharedDevice(nodes[n], d)

(***************************************************************************)
(* C5: after a placement pass, no instance is reported failed while a      *)
(* registered node holds every device its service requires with a          *)
(* sharedCount > 0 and free capacity, when some node holds one of them     *)
(* with sharedCount = 0.                                                   *)
(***************************************************************************)
PlacementDone == pass.kind \in {"RunInstances", "RestartInstances"}

\* node n can still be allocated the devices
CanHost(n, devices) == devices # <<>> /\ allocateDevices(nodes[n], devices).err = ""

C5_PlacedWhereShared ==
    PlacementDone =>
        \A e \in 1..Len(currentErrorStatus) :
            LET devices == GetServiceInfo(
                               currentErrorStatus[e].InstanceIdent.ServiceID).Devices
            IN (\E n \in 1..Len(nodes), d \in Range(devices) :
                    HasUnsharedDevice(nodes[n], d))
               => ~\E n \in 1..Len(nodes) : CanHost(n, devices)

(***************************************************************************)
(* C6: in scenario S5, with the three nodes registered, RunInstances puts  *)
(* serv1.0 on remoteSM1, serv2.0 on localSM1, serv2.1 on localSM2 and      *)
(* reports serv2.2 failed with "no devices for instance".                  *)
(***************************************************************************)
S5Result ==
    /\ ScheduledOn(Ident("serv1", "subj1", 0), "remoteSM1")
    /\ ScheduledOn(Ident("serv2", "subj1", 0), "localSM1")
    /\ ScheduledOn(Ident("serv2", "subj1", 1), "localSM2")
    /\ \E e \in 1..Len(currentErrorStatus) :
          /\ currentErrorStatus[e].InstanceIdent = Ident("serv2", "subj1", 2)
          /\ currentErrorStatus[e].RunState = InstanceStateFailed
          /\ currentErrorStatus[e].ErrorInfo = "no devices for instance"

C6_S5Placement ==
    [][(pcApi = "RunInstances" /\ pcApi' = "idle" /\ Len(nodes) = 3) => S5Result']_vars

\* the specification of scenario S5: the unit of TestBalancingByUnitConfiguration
NextS5 ==
    \/ RunInstancesLock
    \/ RunInstancesS5
    \/ ProcessRunInstanceStatusLock
    \/ ProcessRunInstanceStatus
    \/ TimerExpire
    \/ TimerCollect
    \/ TimerSend

SpecS5 == InitS5 /\ [][NextS5]_vars

\* the launcher with desired instances lists of different priorities
NextPriorities ==
    \/ RunInstancesLock
    \/ RunInstancesPriorities
    \/ ProcessRunInstanceStatusLock
    \/ ProcessRunInstanceStatus
    \/ TimerExpire
    \/ TimerCollect
    \/ TimerSend

SpecPriorities == Init /\ [][NextPriorities]_vars

(***************************************************************************)
(* C7: in one pass the run status is sent by the path of the replies or by *)
(* the path of the connection timer, never by both, and no node is handled *)
(* by both paths.                                                          *)
(***************************************************************************)
C7_OnePathPerPass ==
    PassDone =>
        /\ Cardinality(pass.emittedBy) <= 1
        /\ \A id \in NodeIDs : Cardinality(pass.handled[id]) <= 1

(***************************************************************************)
(* C8: the status the expired connection timer sends holds, for every node *)
(* that is waited for, one entry per instance of its run request, failed   *)
(* with "wait run status timeout", and for every other node exactly the    *)
(* instances it reported.                                                  *)
(***************************************************************************)
\* the entries of a status list that name the node
EntriesOf(status, nodeID) == SelectSeq(status, LAMBDA e : e.NodeID = nodeID)

TimeoutEntries(node) ==
    [i \in 1..Len(node.currentRunRequest.instances) |->
        [InstanceIdent |-> node.currentRunRequest.instances[i].InstanceIdent,
         NodeID |-> node.NodeID, RunState |-> InstanceStateFailed,
         ErrorInfo |-> "wait run status timeout"]]

TimerCollects == pcTimer = "idle" /\ pcTimer' = "collected"

C8_TimeoutStatus ==
    [][/\ TimerCollects =>
            /\ \A n \in 1..Len(nodes) :
                   EntriesOf(collected', nodes[n].NodeID) =
                       IF nodes[n].waitStatus THEN TimeoutEntries(nodes[n])
                       ELSE nodes[n].receivedRunInstances
            /\ \A e \in 1..Len(collected') : Connected(collected'[e].NodeID)
       /\ EmitsByTimer =>
            SubSeq(currentRunStatus', 1, Len(collected)) = collected]_vars

\* the timer has collected, after run requests were sent, the status of a
\* node that replied and the failed entries of a node that did not
C8_Witness ==
    /\ PassDone
    /\ pcTimer = "collected"
    /\ \E e \in 1..Len(collected) : collected[e].ErrorInfo = WaitTimeoutMessage
    /\ \E e \in 1..Len(collected) : collected[e].RunState = InstanceStateActive

(***************************************************************************)
(* C9: once a pass has sent its run requests, a run status is eventually   *)
(* sent, also when a node never replies or never connects.                 *)
(***************************************************************************)
C9_StatusEventuallySent ==
    (PassDone /\ pass.emittedBy = {}) ~> (pass.emittedBy # {})

\* the timer's goroutine keeps running and a handler that has taken the lock
\* returns; the callers of the API and the service managers need not act
Fairness ==
    /\ WF_vars(TimerExpire)
    /\ WF_vars(TimerCollect)
    /\ WF_vars(TimerSend)
    /\ []<>(pcApi = "idle")
    /\ []<>(pcChan = "idle")

\* a unit of one local and one remote node whose desired instances are
\* those of scenario S5
InitFair == InitWith(NodeIDsPair, {UnitConfigS5}) /\ DownloadIdle /\ ManagerIdle /\ RestIdle

FairSpec == InitFair /\ [][NextS5]_vars /\ Fairness

(***************************************************************************)
(* C10: RunInstances or RestartInstances and a rebalancing are never in    *)
(* progress together, and each holds the launcher's lock while it is.      *)
(***************************************************************************)
C10_PassesExclusive ==
    /\ ~(pcApi \in {"RunInstances", "RestartInstances"}
          /\ pcChan = "performRebalancing")
    /\ pcApi \in {"RunInstances", "RestartInstances"} => mutex = "api"
    /\ pcChan = "performRebalancing" => mutex = "chan"

\* a rebalancing holds the lock while the installer of a new unit
\* configuration is about to call RestartInstances
C10_Witness ==
    /\ pcChan = "performRebalancing"
    /\ mutex = "chan"
    /\ pcApi = "unitConfigUpdated"

(***************************************************************************)
(* C11: a status emission reverts (RevertService) a service only if the    *)
(* service is in the newServices of the latest RunInstances call and the   *)
(* emitted status holds no instance of it without an error; no other       *)
(* service is reverted, whatever fails in a rebalancing run.               *)
(***************************************************************************)
LatestNewServices == Range(NewServices(currentDesiredInstances))

RunsWithoutError(status, serviceID) ==
    \E i \in 1..Len(status) :
        /\ status[i].InstanceIdent.ServiceID = serviceID
        /\ status[i].ErrorInfo = ""

Emits == EmitsByReplies \/ EmitsByTimer

C11_RevertOnlyNewServices ==
    [][Emits =>
          \A serviceID \in Range(lastStatus'.ErrorServices) :
              /\ serviceID \in LatestNewServices
              /\ ~RunsWithoutError(currentRunStatus', serviceID)]_vars

\* serv2, newly installed, was reverted while an instance of serv1, not new,
\* is reported with an error and serv1 is left in place
C11_Witness ==
    /\ PassDone
    /\ Range(lastStatus.ErrorServices) = {"serv2"}
    /\ \E i \in 1..Len(currentRunStatus) :
          /\ currentRunStatus[i].InstanceIdent.ServiceID = "serv1"
          /\ currentRunStatus[i].ErrorInfo # ""
    /\ ~RunsWithoutError(currentRunStatus, "serv1")

(***************************************************************************)
(* C12: on a system quota alert for node N an instance is moved only to a  *)
(* node other than N whose priority is equal to or lower than N's.         *)
(***************************************************************************)
PriorityOf(nodeID) == nodes[getNode(nodes, nodeID)].priority

Rebalanced == pass.kind = "performRebalancing"

C12_MovedToOtherLowerNode ==
    Rebalanced =>
        /\ pass.movedTo # pass.alertNode
        /\ PriorityOf(pass.movedTo) <= PriorityOf(pass.alertNode)

(***************************************************************************)
(* C13: after a rebalancing has moved an instance from node A to another   *)
(* node B, on every node the allocated count of each shared device equals  *)
(* the number of times the instances of the node's run request require it. *)
(***************************************************************************)
DeviceDemand(n, name) ==
    Cardinality({ik \in (1..Len(Scheduled(n))) \X (1..3) :
                    /\ ik[2] <= Len(RequiredDevices(Scheduled(n)[ik[1]]))
                    /\ RequiredDevices(Scheduled(n)[ik[1]])[ik[2]] = name})

MovedToOtherNode == Rebalanced /\ pass.movedTo # pass.alertNode

C13_AllocationFollowsMove ==
    MovedToOtherNode =>
        \A n \in 1..Len(nodes) :
            \A d \in 1..Len(nodes[n].availableDevices) :
                nodes[n].availableDevices[d].sharedCount # 0 =>
                    nodes[n].availableDevices[d].allocatedCount =
                        DeviceDemand(n, nodes[n].availableDevices[d].name)

(***************************************************************************)
(* C14: placement is deterministic.  Whenever RunInstances is about to     *)
(* place a desired list, placing the same list a second time with the same *)
(* node configuration, image data and Setup outcomes yields the same run   *)
(* request for every node (instances, UIDs, services and network           *)
(* parameters), also when a rebalancing for any alert and any monitoring   *)
(* data has run between the two placements.                                *)
(***************************************************************************)
RunRequests(nodeList) ==
    [id \in {nodeList[n].NodeID : n \in 1..Len(nodeList)} |->
        nodeList[getNode(nodeList, id)].currentRunRequest]

PlacementOf(ps, instances, setupFailures) ==
    performNodeBalancing(resetDeviceAllocation(ps.nodes), ps.storage, ps.uidPool,
                         ps.network, instances, setupFailures)

\* monitoring data for the connected nodes
FreeResourceOfUnit == {free \in FreeResourceChoices : \A id \in AllNodeIDs \ NodeIDs : free[id] = 1}

C15_IdentOncePerStatus ==
    [][Emits =>
          \A i \in 1..Len(currentRunStatus'), j \in 1..Len(currentRunStatus') :
              currentRunStatus'[i].InstanceIdent = currentRunStatus'[j].InstanceIdent
                  => i = j]_vars

(***************************************************************************)
(* The group downloader: what download has returned.                       *)
(***************************************************************************)
Returned == pcDownload = "returned"

\* the Download or the Wait of id returned an error that is not a
\* cancellation
Failed(id) == failure[id] # NoError

(***************************************************************************)
(* C16: with continueOnError = false, if an identifier failed with an      *)
(* error that is not a cancellation then, when download returns, every     *)
(* identifier that failed carries its own error, every other identifier    *)
(* carries the cancellation error and none has an empty error.             *)
(***************************************************************************)
C16_FailureCancelsGroup ==
    (Returned /\ ~continueOnError /\ \E id \in request : Failed(id)) =>
        \A id \in request :
            /\ result[id].Error # NoError
            /\ IF Failed(id) THEN result[id].Error = failure[id]
               ELSE result[id].Error = ContextCanceled

\* the caller did not cancel, one identifier failed and another one had
\* already been downloaded
C16_Witness ==
    /\ Returned
    /\ ~continueOnError
    /\ ~ctxCanceled
    /\ \E id \in request : Failed(id)
    /\ \E id \in request : notified[id][2] = DownloadedStatus

(***************************************************************************)
(* C17: with continueOnError = true and a caller's context that is not     *)
(* cancelled, every identifier whose own download succeeds is returned     *)
(* with an empty error, whatever happens to the other identifiers.         *)
(***************************************************************************)
C17_FailuresAreIndependent ==
    (Returned /\ continueOnError /\ ~ctxCanceled) =>
        \A id \in request : outcome[id] = "success" => result[id].Error = NoError

C17_Witness ==
    /\ Returned
    /\ continueOnError
    /\ ~ctxCanceled
    /\ \E id \in request : Failed(id) /\ result[id].Error = DownloadError(id)
    /\ \E id \in request : outcome[id] = "success" /\ result[id].Error = NoError

(***************************************************************************)
(* C18: the statuses notified for an identifier are downloading followed   *)
(* by exactly one of downloaded and error once download has returned, and  *)
(* never anything after downloaded.                                        *)
(***************************************************************************)
C18_OneTerminalStatus ==
    \A id \in request :
        /\ pcDownload # "called" =>
               notified[id] \in {<<DownloadingStatus>>,
                                 <<DownloadingStatus, DownloadedStatus>>,
                                 <<DownloadingStatus, ErrorStatus>>}
        /\ Returned => Len(notified[id]) = 2

(***************************************************************************)
(* The update managers.                                                    *)
(***************************************************************************)
NextOnCycle(state) ==
    CASE state = NoUpdate -> Downloading
      [] state = Downloading -> ReadyToUpdate
      [] state = ReadyToUpdate -> Updating
      [] state = Updating -> NoUpdate

\* the state before the i-th status of the channel: the state the manager
\* started from, or the state of the status before
StateBefore(i) ==
    IF i = 1 THEN lifetime.InitState ELSE statusChannel[i - 1].State

\* C19: on the status channel of the firmware and of the software manager
\* every status follows the state before it on the cycle noUpdate,
\* downloading, readyToUpdate, updating, noUpdate, or returns early to
\* noUpdate; and an update that ends without an error has sent downloading,
\* readyToUpdate, updating and noUpdate, in this order.
C19_StatusCycle ==
    \A i \in 1..Len(statusChannel) :
      /\ \/ statusChannel[i].State = NextOnCycle(StateBefore(i))
         \/ statusChannel[i].State = NoUpdate /\ StateBefore(i) # NoUpdate
      /\ (/\ statusChannel[i] = UpdateStatus(NoUpdate, NoError)
          /\ (i >= 4 \/ lifetime.restarts = 0))
         => /\ i >= 4
            /\ <<statusChannel[i - 3].State, statusChannel[i - 2].State,
                 statusChannel[i - 1].State>> = <<Downloading, ReadyToUpdate, Updating>>

\* a manager that never restarted has finished an update without an error
C19_Witness ==
    /\ lifetime.restarts = 0
    /\ Len(statusChannel) = 4
    /\ statusChannel[4] = UpdateStatus(NoUpdate, NoError)
    /\ manager.CurrentState = NoUpdate

IsPrefix(s, t) == Len(s) <= Len(t) /\ s = SubSeq(t, 1, Len(s))

\* the statuses an update sends when the manager runs it from noUpdate to
\* noUpdate without a restart and without another desired status
UninterruptedRuns(kind, update, env) ==
    LET downloaded == UNION {downloadedStatus(kind, r) :
                             r \in downloadResults(kind = "software", env.downloadFails)}
        updated == UpdateStatus(NoUpdate, IF env.updateFails THEN UpdateError ELSE NoError)
        began == UpdateStatus(Downloading, NoError)
    IN UNION {IF ready.State = NoUpdate THEN {<<began, ready>>}
              ELSE {<<began, ready, UpdateStatus(Updating, NoError), updated>>} \cup
                   (IF update.Type # ForceUpdate /\ update.TTL > 0
                    THEN {<<began, ready, UpdateStatus(NoUpdate, UpdateTimeout)>>}
                    ELSE {}) :
              ready \in downloaded}

\* what is left of a run after its status with the given state
Remainder(run, state) ==
    LET i == CHOOSE k \in 1..Len(run) : run[k].State = state
    IN SubSeq(run, i + 1, Len(run))

\* C20: a manager that was restarted on a saved state other than noUpdate
\* continues from that state, and what it sends on its status channel is
\* what an uninterrupted run of the saved update sends after that state:
\* a prefix of it while the update runs, all of it once the manager is back
\* in noUpdate.
C20_RestartResumes ==
    (lifetime.restarts > 0 /\ ~lifetime.desired /\ lifetime.InitState # NoUpdate)
    => /\ manager.CurrentState = IF statusChannel = <<>> THEN lifetime.InitState
                                 ELSE statusChannel[Len(statusChannel)].State
       /\ \E run \in UninterruptedRuns(manager.Kind, lifetime.InitUpdate, environment) :
            /\ \E k \in 1..Len(run) : run[k].State = lifetime.InitState
            /\ IsPrefix(statusChannel, Remainder(run, lifetime.InitState))
            /\ manager.CurrentState = NoUpdate
               => statusChannel = Remainder(run, lifetime.InitState)

\* a manager restarted when it was ready to update has updated the unit
\* without downloading again
C20_Witness ==
    /\ lifetime.restarts > 0
    /\ ~lifetime.desired
    /\ lifetime.InitState = ReadyToUpdate
    /\ manager.CurrentState = NoUpdate
    /\ Len(statusChannel) = 2
    /\ statusChannel[1].State = Updating

\* the last n statuses of the status channel after the step
Sent(n) == SubSeq(statusChannel', Len(statusChannel) + 1, Len(statusChannel'))

\* a desired status arrives at the running manager
DesiredArrives == lifetime'.updates = lifetime.updates + 1

\* C21: when a desired status with other components arrives while the
\* firmware manager downloads or is ready to update, the manager sends
\* noUpdate with the cancellation error and, after it, downloading, and the
\* new plan begins in the downloading state.
C21_NewUpdateCancels ==
    [][(/\ manager.Kind = "firmware"
        /\ manager.CurrentState \in {Downloading, ReadyToUpdate}
        /\ DesiredArrives
        /\ manager'.CurrentUpdate.Components # manager.CurrentUpdate.Components)
       => /\ Len(statusChannel') = Len(statusChannel) + 2
          /\ SubSeq(statusChannel', 1, Len(statusChannel)) = statusChannel
          /\ Sent(2) = <<[State |-> NoUpdate, Error |-> <<"context canceled">>],
                         [State |-> Downloading, Error |-> <<>>]>>
          /\ manager'.CurrentState = Downloading
          /\ manager'.DownloadResult = NoResult
          /\ stored'.CurrentUpdate = manager'.CurrentUpdate]_vars

\* the plan of a firmware manager that was ready to update has been
\* cancelled by a desired status with other components
C21_Witness ==
    /\ manager.Kind = "firmware"
    /\ lifetime.restarts = 0
    /\ lifetime.updates = 2
    /\ Len(statusChannel) = 4
    /\ statusChannel[2].State = ReadyToUpdate
    /\ statusChannel[3] = UpdateStatus(NoUpdate, ContextCanceled)
    /\ statusChannel[4].State = Downloading
    /\ manager.CurrentState = Downloading

\* C22: a desired status that arrives while the firmware manager updates
\* the unit changes neither the state, the plan, the storage nor the status
\* channel: it is kept, and when the running update returns the manager
\* sends the noUpdate of that update and only then begins the kept desired
\* status as a new plan in the downloading state.
C22_UpdateNotInterrupted ==
    [][/\ (manager.Kind = "firmware" /\ manager.CurrentState = Updating /\ DesiredArrives)
          => /\ statusChannel' = statusChannel
             /\ stored' = stored
             /\ manager'.CurrentState = Updating
             /\ manager'.CurrentUpdate = manager.CurrentUpdate
             /\ manager'.pendingUpdate \in DesiredUpdates \ {manager.CurrentUpdate}
       /\ (/\ manager.Kind = "firmware"
           /\ manager.CurrentState = Updating
           /\ manager.pendingUpdate # NoPlan
           /\ manager'.CurrentState # Updating
           /\ lifetime'.restarts = lifetime.restarts)
          => /\ Len(statusChannel') = Len(statusChannel) + 2
             /\ SubSeq(statusChannel', 1, Len(statusChannel)) = statusChannel
             /\ Sent(2)[1].State = NoUpdate
             /\ Sent(2)[1].Error \in {<<>>, <<"update error">>}
             /\ Sent(2)[2] = [State |-> Downloading, Error |-> <<>>]
             /\ manager'.CurrentState = Downloading
             /\ manager'.CurrentUpdate = manager.pendingUpdate]_vars

\* a desired status that arrived while the firmware manager updated the
\* unit has become the plan after the update returned
C22_Witness ==
    /\ manager.Kind = "firmware"
    /\ lifetime.restarts = 0
    /\ lifetime.updates = 2
    /\ Len(statusChannel) = 5
    /\ statusChannel[3].State = Updating
    /\ statusChannel[4] = UpdateStatus(NoUpdate, NoError)
    /\ statusChannel[5].State = Downloading
    /\ manager.CurrentState = Downloading

\* the items whose download fails
FailingItems == {id \in UpdateItems : environment.downloadFails[id]}

\* the statuses the manager has sent, the lifetimes before the restarts
\* not included
StatesSent == {statusChannel[i].State : i \in 1..Len(statusChannel)}

\* C23: when the download of an item of the plan of the firmware manager
\* fails, the return of the download sends one status, noUpdate with the
\* download error of a failing item (never the error of a cancelled
\* context), the plan is dropped, and the manager is never ready to update
\* nor updating.
C23_DownloadErrorEndsPlan ==
    [][/\ (/\ manager.Kind = "firmware"
           /\ FailingItems # {}
           /\ manager.CurrentState = Downloading
           /\ manager'.CurrentState # Downloading
           /\ lifetime' = lifetime)
          => /\ statusChannel # <<>>
                => statusChannel[Len(statusChannel)].State = Downloading
             /\ Len(statusChannel') = Len(statusChannel) + 1
             /\ Sent(1)[1].State = NoUpdate
             /\ Sent(1)[1].Error \in {<<"download error", id>> : id \in FailingItems}
             /\ manager'.CurrentState = NoUpdate
             /\ manager'.CurrentUpdate = NoPlan
       /\ (manager'.Kind = "firmware" /\ FailingItems # {})
          => /\ manager'.CurrentState \notin {ReadyToUpdate, Updating}
             /\ stored'.CurrentState \notin {ReadyToUpdate, Updating}
             /\ \A i \in 1..Len(statusChannel') :
                  statusChannel'[i].State \notin {ReadyToUpdate, Updating}]_vars

\* the plan of a firmware manager has ended with the download error of the
\* one item that failed, the other item having been cancelled
C23_Witness ==
    /\ manager.Kind = "firmware"
    /\ FailingItems = {"item2"}
    /\ lifetime.restarts = 0
    /\ statusChannel = <<UpdateStatus(Downloading, NoError),
                         UpdateStatus(NoUpdate, DownloadError("item2"))>>
    /\ manager.CurrentState = NoUpdate

\* C24: a manager that waits in readyToUpdate for a schedule with a TTL
\* does not wait for ever: it leaves the state (or is closed), and when it
\* leaves it to noUpdate on its own the TTL has passed, it sends one
\* status, noUpdate with the error "update timeout", the plan is dropped
\* and no updating status was sent.
C24_UpdateTimeout ==
    /\ [][(/\ manager.CurrentState = ReadyToUpdate
           /\ manager'.CurrentState = NoUpdate
           /\ lifetime' = lifetime)
          => /\ manager.CurrentUpdate.TTL > 0
             /\ manager.CurrentUpdate.Type # ForceUpdate
             /\ manager.elapsed = manager.CurrentUpdate.TTL
             /\ Len(statusChannel') = Len(statusChannel) + 1
             /\ Sent(1) = <<[State |-> NoUpdate, Error |-> <<"update timeout">>]>>
             /\ manager'.CurrentUpdate = NoPlan
             /\ stored'.CurrentState = NoUpdate]_vars
    /\ [](manager.elapsed <= manager.CurrentUpdate.TTL)
    /\ WaitsWithTTL ~> (manager.closed \/ manager.CurrentState # ReadyToUpdate)

\* the TTL of a triggered update has passed before the trigger came: the
\* firmware manager is back in noUpdate without having updated the unit
C24_Witness ==
    /\ manager.Kind = "firmware"
    /\ lifetime.restarts = 0
    /\ lifetime.updates = 1
    /\ Len(statusChannel) = 3
    /\ statusChannel[2].State = ReadyToUpdate
    /\ statusChannel[3] = UpdateStatus(NoUpdate, UpdateTimeout)
    /\ manager.CurrentState = NoUpdate

\* the update of the manager has terminated: the manager was closed, or it
\* is back in noUpdate after a plan
UpdateTerminated ==
    \/ manager.closed
    \/ manager.CurrentState = NoUpdate /\ lifetime.updates > 0

\* C25: after an update of the firmware or of the software manager has
\* terminated, with or without error, by cancellation or by close, the
\* downloader holds no download of a type of that manager that it is able
\* to release (component; service and layer).
C25_DownloadsReleased ==
    UpdateTerminated
    => \A type \in TargetsOf(manager.Kind) \ environment.releaseFails : type \notin downloads

\* the same when the downloader releases every type without error
C25_ReleasedWhenReleaseWorks ==
    (UpdateTerminated /\ environment.releaseFails = {})
    => downloads \cap TargetsOf(manager.Kind) = {}

\* C26: the updates of the unit configuration, of the firmware and of the
\* software are tasks of the one update synchronizer, and at any moment at
\* most one task of the synchronizer runs: no two of them overlap.
C26_UpdatesDoNotOverlap ==
    /\ \A t1 \in syncRunning, t2 \in syncRunning : t1 = t2
    /\ Len(syncStarted) - Len(syncFinished) \in {0, 1}

\* the firmware update runs while the software update and the update of
\* the unit configuration wait for their turn
C26_Witness ==
    /\ \E task \in syncRunning : task.owner = "fota"
    /\ \E i \in 1..Len(syncQueue) : syncQueue[i].owner = "sota"
    /\ \E i \in 1..Len(syncQueue) : syncQueue[i].owner = "unitConfig"

\* the context of the task that took the given turn was cancelled before
\* that turn
CancelledBeforeTurn(turn) ==
    syncTasks[syncTaken[turn] + 1].ctx = "cancelCtx" /\ cancelTurn < turn

\* the numbers of the tasks of the turns from the given one on that found
\* their context not cancelled
RECURSIVE TurnsToRun(_)
TurnsToRun(turn) ==
    IF turn > Len(syncTaken) THEN <<>>
    ELSE (IF CancelledBeforeTurn(turn) THEN <<>> ELSE <<syncTaken[turn]>>)
         \o TurnsToRun(turn + 1)

\* C27: the turns are taken in the order of the calls of execute; the
\* tasks that ran are exactly the tasks whose context was not cancelled
\* before their turn, in the order of the calls; they run one at a time,
\* each returning before the next begins; a task whose context was
\* cancelled before its turn never runs.
C27_RunsInSubmissionOrder ==
    /\ syncTaken = [i \in 1..Len(syncTaken) |-> i - 1]
    /\ \A i \in 1..Len(syncTasks) : syncTasks[i].id = i - 1
    /\ syncStarted = TurnsToRun(1)
    /\ syncFinished \in {syncStarted, SubSeq(syncStarted, 1, Len(syncStarted) - 1)}
    /\ \A turn \in 1..Len(syncTaken) :
         CancelledBeforeTurn(turn)
         => \A i \in 1..Len(syncStarted) : syncStarted[i] # syncTaken[turn]

\* of four tasks the second and the fourth had the context that was
\* cancelled after the first turn: the first and the third ran, in that
\* order, the other two were dropped
C27_Witness ==
    /\ Len(syncTasks) = 4
    /\ syncTasks[1].ctx = "background"
    /\ syncTasks[2].ctx = "cancelCtx"
    /\ syncTasks[3].ctx = "background"
    /\ syncTasks[4].ctx = "cancelCtx"
    /\ cancelTurn = 1
    /\ syncTaken = <<0, 1, 2, 3>>
    /\ syncFinished = <<0, 2>>

\* the instant lies inside a slot of the timetable: on the day of the slot,
\* not before its start and before its finish
InsideSlot(from, table) ==
    \E i \in 1..Len(table) : \E j \in 1..Len(table[i].TimeSlots) :
       /\ table[i].DayOfWeek % 7 = from.Weekday
       /\ table[i].TimeSlots[j].Start <= from.Tick
       /\ from.Tick < table[i].TimeSlots[j].Finish

\* the time from the instant to the nearest start of a slot, this week or
\* the next
NearestStart(from, table) ==
    Least(UNION {{(((table[i].DayOfWeek % 7) * DayTicks + table[i].TimeSlots[j].Start)
                    - (from.Weekday * DayTicks + from.Tick) + WeekTicks) % WeekTicks :
                   j \in 1..Len(table[i].TimeSlots)} :
                 i \in 1..Len(table)})

\* C28: for every timetable that getAvailableTimetableTime accepts and
\* every instant, the time returned is zero exactly when the instant lies
\* inside a slot of the timetable, and otherwise it is the positive time to
\* the nearest start of a slot after the instant.
C28_ZeroIffInsideSlot ==
    (availableTime # NotComputed /\ availableTime.err = "")
    => /\ availableTime.time = 0 <=> InsideSlot(fromDate, timetable)
       /\ ~InsideSlot(fromDate, timetable)
          => /\ availableTime.time > 0
             /\ availableTime.time = NearestStart(fromDate, timetable)

\* every slot of the timetable starts before it finishes
SlotsNotEmpty(table) ==
    \A i \in 1..Len(table) : \A j \in 1..Len(table[i].TimeSlots) :
       table[i].TimeSlots[j].Start < table[i].TimeSlots[j].Finish

\* the same for the timetables whose slots all start before they finish
AvailableTimeOfProperSlots ==
    SlotsNotEmpty(timetable) => C28_ZeroIffInsideSlot

\* the unit statuses the handler holds: in sendChannel, in pendingChannel
\* or with the sender
UnitStatusesHeld ==
    {m \in {sendChannel[i] : i \in 1..Len(sendChannel)}
           \cup {pendingChannel[i] : i \in 1..Len(pendingChannel)}
           \cup (IF sender.pc = "confirm" THEN {sender.message} ELSE {}) :
     m.type = "unitStatus"}

\* the unit statuses the cloud received
UnitStatusesPublished ==
    {published[i] : i \in {k \in 1..Len(published) : published[k].type = "unitStatus"}}

\* C29: a unit status given to the handler while it is not connected is
\* answered ErrNotConnected and is neither kept nor sent: every unit status
\* the handler holds, and every unit status the cloud received, before or
\* after a reconnection, was given while the handler was connected.
C29_NotSentWhenDisconnected ==
    /\ \A m \in UnitStatusesHeld \cup UnitStatusesPublished :
         m.connected /\ m.id \notin notConnected
    /\ \A m \in UnitStatusesHeld \cup UnitStatusesPublished :
         m.id \in 0..(scheduled - 1)

\* a unit status was refused while the handler was not connected, and after
\* the reconnection a later unit status has reached the cloud
C29_Witness ==
    /\ 1 \in notConnected
    /\ isConnected
    /\ \E i \in 1..Len(published) :
         published[i].type = "unitStatus" /\ published[i].id = 2
    /\ \E i \in 1..Len(published) :
         published[i].type = "unitStatus" /\ published[i].id = 0

\* C30: the cloud receives the messages in the order they were given to
\* the handler: no message is received after a message given later, also
\* when a message is sent again after a missing confirmation or a lost
\* connection.
C30_PublishedInOrder ==
    \A i \in 1..Len(published) : \A j \in i..Len(published) :
       published[i].id <= published[j].id

\* the first unit status was sent twice, its first confirmation missing,
\* before the second unit status was sent
C30_Witness ==
    /\ Len(published) = 3
    /\ published[1].id = 0 /\ published[1].type = "unitStatus"
    /\ published[2].id = 0
    /\ published[3].id = 1 /\ published[3].type = "unitStatus"

\* the request was sent when every update manager had reported the state
AllReported(sent, state) == \A um \in UMIDs : sent.reported[um] = state

\* C31: the controller sends StartUpdate only when every update manager
\* has reported prepared or a later state of the update, and ApplyUpdate
\* only when every update manager has reported updated or, having applied
\* the update already, idle.
C31_PhasesInStep ==
    \A i \in 1..Len(umcSent) :
       /\ umcSent[i].request = "StartUpdate"
          => \A um \in UMIDs : umcSent[i].reported[um] \in {"prepared", "updated"}
       /\ umcSent[i].request = "ApplyUpdate"
          => \A um \in UMIDs : umcSent[i].reported[um] \in {"updated", "idle"}
       /\ umcSent[i].request = "ApplyUpdate"
          => \A um \in UMIDs : \E k \in 1..(i - 1) :
                umcSent[k].um = um /\ umcSent[k].request = "StartUpdate"

\* the update was applied on both update managers without a break: each
\* got PrepareUpdate, StartUpdate and ApplyUpdate
C31_Witness ==
    /\ umcResult = "done"
    /\ umcBreaks = [disconnects |-> 0, restarts |-> 0, failedBy |-> {}]
    /\ Len(umcSent) = 6
    /\ umcSent[3].request = "StartUpdate"
    /\ umcSent[5].request = "ApplyUpdate"
    /\ umVersion = [um \in UMIDs |-> 2]

\* the update manager had reported prepared or updated when some request
\* was sent
ReachedPrepared(um) ==
    \E i \in 1..Len(umcSent) : umcSent[i].reported[um] \in {"prepared", "updated"}

\* RevertUpdate was sent to the update manager
RevertSent(um) ==
    \E i \in 1..Len(umcSent) : umcSent[i].um = um /\ umcSent[i].request = "RevertUpdate"

\* an update during which an update manager reported failed has ended,
\* the controller not having been closed meanwhile
FailedUpdateEnded ==
    /\ umcBreaks.restarts = 0
    /\ umcBreaks.failedBy # {}
    /\ umcPhase = UmcIdleState
    /\ umcResult # "none"

\* C32: when an update manager reported failed in the prepare or in the
\* update phase, RevertUpdate was sent to every update manager that had
\* reached prepared or a later state, and UpdateComponents returned an
\* error.
C32_RevertAndError ==
    FailedUpdateEnded
    => /\ \A um \in UMIDs : ReachedPrepared(um) => RevertSent(um)
       /\ umcResult = "error"

\* the part of it that is about RevertUpdate
RevertSentToPrepared ==
    FailedUpdateEnded => \A um \in UMIDs : ReachedPrepared(um) => RevertSent(um)

\* the part of it that is about the error, when the failed state came with
\* a status of the update manager
ErrorWhenFailedByStatus ==
    (FailedUpdateEnded /\ "status" \in umcBreaks.failedBy) => umcResult = "error"

\* the versions of the components after an update without a break: the new
\* one when no update manager fails, else the old one
UninterruptedVersions(fails) ==
    [um \in UMIDs |-> IF \A other \in UMIDs : fails[other] = "never" THEN 2 ELSE 1]

\* C33: a controller that runs is in the phase it saved, also after it was
\* created again in the middle of a phase; and when the update has ended,
\* after closed connections or a restart of the controller, the update
\* managers are idle with the versions an update without a break ends
\* with.
C33_ResumesFromSavedPhase ==
    /\ umcRunning => umcPhase = umcStored
    /\ (umcPhase = UmcIdleState /\ umcResult # "none")
       => /\ umVersion = UninterruptedVersions(umFails)
          /\ umState = [um \in UMIDs |-> "idle"]

\* the update was applied although two connections were closed and the
\* controller was created again
C33_Witness ==
    /\ umcBreaks.disconnects = 2
    /\ umcBreaks.restarts = 1
    /\ umcRunning
    /\ umcPhase = UmcIdleState
    /\ umcResult = "closed"
    /\ umVersion = [um \in UMIDs |-> 2]

(***************************************************************************)
(* Placement of services the image provider does not know or holds cached. *)
(***************************************************************************)
\* the reason performNodeBalancing gives for a service it does not place
NotPlacedReason(serviceID) ==
    IF ~GetServiceInfo(serviceID).exists THEN "service does't exist"
    ELSE IF GetServiceInfo(serviceID).Cached THEN "service deleted"
    ELSE ""

\* instance index of the desired service is reported failed with the reason
ReportedFailed(desired, index) ==
    \E e \in 1..Len(currentErrorStatus) :
        /\ currentErrorStatus[e].InstanceIdent
               = Ident(desired.ServiceID, desired.SubjectID, index)
        /\ currentErrorStatus[e].RunState = InstanceStateFailed
        /\ currentErrorStatus[e].ErrorInfo = NotPlacedReason(desired.ServiceID)

\* no instance of the service is in the run request of a node
InNoRunRequest(serviceID) ==
    \A n \in 1..Len(nodes) : \A i \in 1..Len(Scheduled(n)) :
        Scheduled(n)[i].InstanceIdent.ServiceID # serviceID

\* RunInstances returns
RunInstancesReturns == pcApi = "RunInstances" /\ pcApi' = "idle"

\* the desired services that are unknown or cached
NotPlacedServices ==
    {d \in 1..Len(currentDesiredInstances) :
        NotPlacedReason(currentDesiredInstances[d].ServiceID) # ""}

EveryIndexReportedFailed ==
    \A d \in NotPlacedServices :
        /\ \A index \in 0..(currentDesiredInstances[d].NumInstances - 1) :
              ReportedFailed(currentDesiredInstances[d], index)
        /\ InNoRunRequest(currentDesiredInstances[d].ServiceID)

\* C34: when RunInstances returns, every instance index below numInstances
\* of a desired service that is unknown or cached is reported failed with
\* the reason, and no instance of the service is in a run request.
C34_EveryIndexReportedFailed == [][RunInstancesReturns => EveryIndexReportedFailed']_vars

\* what the code does: one status, of index 0, is reported for the service,
\* and no instance of it is in a run request
OnlyFirstIndexReportedFailed ==
    \A d \in NotPlacedServices :
        /\ ReportedFailed(currentDesiredInstances[d], 0)
        /\ InNoRunRequest(currentDesiredInstances[d].ServiceID)
        /\ Cardinality({e \in 1..Len(currentErrorStatus) :
               currentErrorStatus[e].InstanceIdent.ServiceID
                   = currentDesiredInstances[d].ServiceID}) = 1

FirstIndexReportedFailed == [][RunInstancesReturns => OnlyFirstIndexReportedFailed']_vars

(***************************************************************************)
(* Order of placement.                                                     *)
(***************************************************************************)
\* the list is in the order priority descending, then service identifier
\* ascending
InPriorityOrder(instances) ==
    \A i, j \in 1..Len(instances) :
        i < j => \/ instances[i].Priority > instances[j].Priority
                 \/ /\ instances[i].Priority = instances[j].Priority
                    /\ ServiceIDRank(instances[i].ServiceID)
                           <= ServiceIDRank(instances[j].ServiceID)

\* what a placement decided for the service: the statuses reported failed
\* and the nodes its instances are requested on
OutcomeFor(placement, serviceID) ==
    [failed |-> {e \in Range(placement.errStatus) : e.InstanceIdent.ServiceID = serviceID},
     placed |-> UNION {{<<placement.nodes[n].NodeID, i.InstanceIdent>> :
                          i \in {r \in Range(placement.nodes[n].currentRunRequest.instances) :
                                    r.InstanceIdent.ServiceID = serviceID}} :
                       n \in 1..Len(placement.nodes)}]

\* the desired instances of at least that priority
NotBelow(instances, priority) == SelectSeq(instances, LAMBDA d : d.Priority >= priority)

\* the placement of the launcher's state for the desired instances
PlacementNow(instances) ==
    PlacementOf([nodes |-> nodes, storage |-> storage, uidPool |-> uidPool,
                 network |-> network], SortDesired(instances), {})

\* C35: the desired instances the launcher holds are in the order priority
\* descending, then service identifier ascending; and whenever RunInstances
\* is about to place a list, every service of the list gets the failures
\* and the nodes it gets when the services of strictly lower priority are
\* left out of the list: no service of lower priority takes a device from it.
C35_PlacedInPriorityOrder ==
    /\ InPriorityOrder(currentDesiredInstances)
    /\ pcApi = "RunInstances" =>
          \A instances \in DesiredPriorities : \A d \in 1..Len(instances) :
              OutcomeFor(PlacementNow(instances), instances[d].ServiceID)
                  = OutcomeFor(PlacementNow(NotBelow(instances, instances[d].Priority)),
                               instances[d].ServiceID)

\* a pass has placed a service on the device for which an instance of a
\* service of lower priority is reported failed
C35_Witness ==
    /\ pass.kind = "RunInstances"
    /\ pcApi = "idle"
    /\ \E e \in 1..Len(currentErrorStatus), n \in 1..Len(nodes) :
          \E i \in 1..Len(Scheduled(n)), d \in 1..Len(currentDesiredInstances) :
              /\ currentErrorStatus[e].ErrorInfo = "no available device found"
              /\ currentDesiredInstances[d].ServiceID
                     = currentErrorStatus[e].InstanceIdent.ServiceID
              /\ Scheduled(n)[i].Priority > currentDesiredInstances[d].Priority
              /\ Range(RequiredDevices(Scheduled(n)[i]))
                     \cap Range(GetServiceInfo(currentDesiredInstances[d].ServiceID).Devices)
                     # {}

(***************************************************************************)
(* The downloader.                                                         *)
(***************************************************************************)
\* the requests that were accepted and have no status yet
Pending == {id \in accepted : statusChannels[id] = <<>>}

\* C36: at most MaxConcurrentDownloads downloads are being processed, and
\* every accepted request that has no status yet is either being processed
\* or waits in the queue, once and not both.
C36_AtMostMaxConcurrent ==
    /\ Cardinality(currentDownloads) <= MaxConcurrentDownloads
    /\ Pending = currentDownloads \cup Range(waitQueue)
    /\ currentDownloads \cap Range(waitQueue) = {}
    /\ Cardinality(Range(waitQueue)) = Len(waitQueue)

\* as many downloads as allowed are being processed and the other requests wait
C36_Witness ==
    /\ Cardinality(currentDownloads) = MaxConcurrentDownloads
    /\ Len(waitQueue) = MaxDownloads - MaxConcurrentDownloads

\* C39: no request is sent more than one status and only accepted requests
\* are sent one; and when every download that is being processed
\* terminates, every accepted request is eventually sent its status, also
\* one that waits in the queue and one whose context is done while it waits.
C39_OneStatusForEveryRequest ==
    /\ [](\A id \in DownloadIDs :
             /\ Len(statusChannels[id]) <= 1
             /\ statusChannels[id] # <<>> => id \in accepted)
    /\ \A id \in DownloadIDs : (id \in accepted) ~> (Len(statusChannels[id]) = 1)

\* a request whose context was done while it waited in the queue has been
\* sent the error of its context, and a request that waited was processed
C39_Witness ==
    /\ \E id \in ctxDone : statusChannels[id] = <<"context canceled">>
    /\ \E id \in DownloadIDs : statusChannels[id] = <<"not enough space">>
    /\ Pending = {}
    /\ Cardinality(accepted) = MaxDownloads

(***************************************************************************)
(* The replies a run status is built from.                                 *)
(***************************************************************************)
\* processRunInstanceStatus handles a status and finds every node
\* registered and none waited for, so it sends the run status
RepliesEmitStatus ==
    /\ pcChan = "processRunInstanceStatus"
    /\ pcChan' = "idle"
    /\ Len(nodes') = Cardinality(NodeIDs)
    /\ \A n \in 1..Len(nodes') : ~nodes'[n].waitStatus

\* every run request sent to a node is answered: the status the launcher
\* holds of every node is the reply to the node's last request, which is
\* the request of the current pass
AllRequestsAnswered == \A id \in NodeIDs : smRequests[id] = <<>>

\* processRunInstanceStatus handles the reply of the node to a run request
\* that is not the last one sent to it: the request of an earlier pass
EarlierReplyHandled(id) ==
    /\ pcChan = "processRunInstanceStatus"
    /\ Len(smRequests[id]) >= 2
    /\ smRequests'[id] = Tail(smRequests[id])

\* the node is waited for
StillWaited(id) == getNode(nodes, id) # 0 /\ nodes[getNode(nodes, id)].waitStatus

\* C37: when the replies of the nodes make the launcher send the run status
\* of a placement pass, the status of every node is the node's reply to the
\* run request of that pass; and after the reply to the request of an
\* earlier pass is handled, the node is still waited for.
C37_StatusFromRepliesOfPass ==
    [][/\ RepliesEmitStatus => (PassDone => AllRequestsAnswered)'
       /\ \A id \in NodeIDs : EarlierReplyHandled(id) => StillWaited(id)']_vars

(***************************************************************************)
(* The lock and the status emission of the connection timer.               *)
(***************************************************************************)
\* C40: while the sendCurrentStatus of the connection timer is between its
\* loop over the wait flags of the nodes and its assignments to the pending
\* new services, the error status and the run status, neither an API call
\* nor the handler of a node status or of an alert holds the launcher lock.
C40_TimerStatusUnderLock == pcTimer = "collected" => mutex = "free"


(***************************************************************************)
(* The launcher's lock while the run status channel is full.               *)
(***************************************************************************)
\* C38: RunInstances, RestartInstances and the rebalancing that wait for
\* the launcher's lock eventually return, also when nothing reads the run
\* status channel.
C38_CallsReturn ==
    /\ (goroutines.api = "Lock") ~> (goroutines.api = "idle")
    /\ (goroutines.chan = "Lock" /\ goroutines.received = "alert")
           ~> (goroutines.chan = "idle")

\* what holds: the calls return while the unit status handler reads
CallsReturnWhileRead ==
    /\ (reading /\ goroutines.api = "Lock") ~> (goroutines.api = "idle")
    /\ (reading /\ goroutines.chan = "Lock") ~> (goroutines.chan = "idle")
====
